---- MODULE Spec2Model ----
(***************************************************************************)
(* A model of the session client of ion-sdk-go (src/client.go): the two    *)
(* transports with their candidate buffers, the negotiation paths          *)
(* (negotiate, setRemoteSDP, trickle), the control-channel command queue   *)
(* (selectRemote, the OnOpen flush), the sequential public operations      *)
(* (Join, Publish, UnPublish, PublishFile, Subscribe), the track-event     *)
(* dispatch (trackEvent, step by step), the media path                     *)
(* (the track-arrival callback with its drain loop, getBandWidth, Close),  *)
(* the remote-stream set (Simulcast) and the connectivity callback.        *)
(*                                                                         *)
(* The client takes no lock around the candidate buffers, the command      *)
(* queue or the byte counter, so every handler that touches them is        *)
(* modelled statement by statement, one action per shared-memory access,   *)
(* each with its own program counter.                                      *)
(***************************************************************************)
EXTENDS Integers, Sequences, FiniteSets, TLC

\* src/client.go:15-16, the role tags
PUBLISHER == 0
SUBSCRIBER == 1
Legs == {PUBLISHER, SUBSCRIBER}

\* Bound of the candidate paths: how many events (inbound candidates, local
\* candidates, descriptions) the coordinator and the engine deliver
MaxEvents == 5

\* Bounds of the command queue: selectRemote calls made, sends that fail
MaxCalls == 3
MaxFail == 1

\* Bounds of the sequential operations: calls made of Join, of PublishFile,
\* of trackEvent; tracks carried by one track event
MaxJoins == 3
MaxPublish == 2
MaxTrackEvents == 2
MaxTracks == 2

VARIABLES
  \* ---- peer connections (pion): remote description slots per leg
  pendingRemote,    \* [Legs -> BOOLEAN]  pc.PendingRemoteDescription() # nil
  currentRemote,    \* [Legs -> BOOLEAN]  pc.CurrentRemoteDescription() # nil
  \* ---- Transport buffers
  RecvCandidates,   \* [Legs -> Seq(Nat)]
  SendCandidates,   \* [Legs -> Seq(Nat)]
  \* ---- the candidate-arrival callback (Client.trickle)
  tk,               \* [pc, cand, target, buf]
  \* ---- the description path (Client.negotiate / Client.setRemoteSDP)
  dsc,              \* [pc, rng, fn, sendAt, recvAt]
  ret,              \* what the last negotiate / setRemoteSDP call returned
  callLog,          \* engine and signal calls made by the current / last call
  \* ---- what the collaborators observed
  added,            \* [Legs -> Seq([cand, remote])]  pc.AddICECandidate calls
  sigTrickle,       \* Seq([cand, target, remote])    signal.trickle calls
  sigAnswer,        \* Seq(Nat)                       signal.answer calls
  \* ---- history
  early,            \* [Legs -> Seq(Nat)] candidates delivered to trickle before
                    \* the leg had a remote description
  held,             \* [Legs -> Seq(Nat)] outbound candidates put in SendCandidates
  nIn, nOut, nRounds,
  kept,             \* [Legs -> [st, send, recv]] the leg's buffers as the last
                    \* failed SetRemoteDescription found them
  \* ---- control channel and command queue
  api,              \* c.sub.api: "nil", or the channel's ready state
  apiQueue,         \* Seq(Call)
  sel,              \* [Callers -> [pc, call, rng, buf]] the selectRemote call
                    \* each caller is in
  opn,              \* the channel's OnOpen callback: [pc, rng]
  selRet,           \* [Callers -> what the caller's last selectRemote call returned]
  sent,             \* Seq([n, payload, ok])  c.sub.api.Send calls
  deferred,         \* Seq(Nat) commands selectRemote decided to queue
  direct,           \* Seq(Nat) commands selectRemote decided to send itself
  flushes,          \* Seq("OnOpen" | "selectRemote") completed drains of the queue
  drains,           \* Seq([by, snap, tried]) the drains started: who (0: OnOpen,
                    \* n: the n-th selectRemote call), the queue as the range
                    \* found it, the sends made so far
  nCalls, nFail,
  \* ---- sequential public operations
  uid,              \* the client's identity
  registered,       \* Join has registered the engine callbacks
  OnTrackEvent,     \* the exported field: "nil", "user" or "default"
  handlerSet,       \* the application has assigned its handler to OnTrackEvent
  tev,              \* the trackEvent call under way: [pc, event]
  pubLocal,         \* the publisher's local description (0: none)
  pubTracks,        \* tracks added to the publisher connection
  producer,         \* [set, file, started]; set is FALSE for nil
  joinReqs,         \* Seq([sid, uid, offer])   signal.Join calls
  sigOffer,         \* Seq(Nat)                 signal.offer calls
  subscribeReqs,    \* Seq([trackIds, enabled]) signal.Subscribe calls
  userEvents,       \* events handed to the user's OnTrackEvent
  lastCall,         \* the last public operation: its arguments, result, calls
  nOffers, nOps,
  \* ---- media path
  recvByte,         \* c.recvByte
  notify,           \* c.notify: "open" or "closed"
  closeOps,         \* how many times close(c.notify) has been executed
  panicked,         \* a Close call ended in a run-time panic
  pcClosed,         \* [Legs -> BOOLEAN]  pc.Close() has been called
  OnTrack,          \* the exported field: "nil" or "user"
  userTracks,       \* tracks handed to the user's OnTrack
  trk,              \* [Loops -> [pc, sid, n, buf]] one track-arrival callback each
  gbw,              \* the getBandWidth call: [pc, cycle, read, recvBW, sendBW]
  bwRet,            \* what the last getBandWidth call returned
  samples,          \* Seq(Nat) the counter values read by the samples so far
  totalAdded,       \* bytes the drain loops have added to the counter
  nDrain,           \* events of the media path so far
  \* ---- remote-stream set
  streamLock,       \* c.streamLock: [w, r] writer held, number of readers
  remoteStreamId,   \* the keys of c.remoteStreamId
  sim,              \* the Simulcast call: [pc, layer, base, seen]
  simCalls,         \* Seq(Call) selectRemote calls made by Simulcast
  nSim,
  \* ---- connectivity
  iceState,         \* [Legs -> ICE connection state]
  delReqs,          \* Seq(uid) engine.delClient calls
  nIce

candVars == <<pendingRemote, currentRemote, RecvCandidates, SendCandidates, tk,
              dsc, ret, callLog, added, sigTrickle, sigAnswer, early, held,
              nIn, nOut, nRounds, kept>>

queueVars == <<api, apiQueue, sel, opn, selRet, sent, deferred, direct, flushes,
               nCalls, nFail, drains>>

apiVars == <<uid, registered, OnTrackEvent, handlerSet, tev, pubLocal, pubTracks, producer, joinReqs, sigOffer,
             subscribeReqs, userEvents, lastCall, nOffers, nOps>>

\* the media path: the drain loops, the byte counter, the shutdown signal
drainVars == <<recvByte, notify, closeOps, panicked, pcClosed, OnTrack, userTracks,
               trk, gbw, bwRet, samples, totalAdded, nDrain>>

drainVarsButTrk == <<recvByte, notify, closeOps, panicked, pcClosed, OnTrack,
                     userTracks, gbw, bwRet, samples, totalAdded, nDrain>>

\* the remote-stream set and its lock, Simulcast
streamVars == <<streamLock, remoteStreamId, sim, simCalls, nSim>>

\* the connectivity callback
iceVars == <<iceState, delReqs, nIce>>

mediaVars == <<drainVars, streamVars, iceVars>>

vars == <<candVars, queueVars, apiVars, mediaVars>>
nEv == nIn + nOut + nRounds

----------------------------------------------------------------------------
(* Helpers *)

Range(s) == {s[i] : i \in 1..Len(s)}

RECURSIVE Filter(_, _)
Filter(s, S) ==
  IF s = <<>> THEN <<>>
  ELSE IF Head(s) \in S THEN <<Head(s)>> \o Filter(Tail(s), S)
       ELSE Filter(Tail(s), S)

Cands(log) == [i \in 1..Len(log) |-> log[i].cand]

Count(s, x) == Cardinality({i \in 1..Len(s) : s[i] = x})

NoDup(s) == \A i, j \in 1..Len(s) : s[i] = s[j] => i = j

IsPrefix(p, s) == Len(p) <= Len(s) /\ \A i \in 1..Len(p) : p[i] = s[i]

Op(name, c) == [op |-> name, cand |-> c]

----------------------------------------------------------------------------
(* The peer connection's remote description (pion/webrtc v3).              *)
(* SetRemoteDescription(offer) fills the pending slot; the current slot is *)
(* filled when the round completes: by SetLocalDescription(answer) on the  *)
(* answering side, by SetRemoteDescription(answer) on the offering side.   *)

\* pc.RemoteDescription() # nil: what AddICECandidate requires
HasRemote(l) == pendingRemote[l] \/ currentRemote[l]

\* t.pc.CurrentRemoteDescription() == nil, as read by trickle
\* (variant: the test is dropped and the candidate always applied)
CurrentRemoteIsNilMut(l) == FALSE
CurrentRemoteIsNil(l) == ~currentRemote[l]

\* trickle's choice of transport: target == SUBSCRIBER ? c.sub : c.pub
TransportOf(target) == IF target = SUBSCRIBER THEN SUBSCRIBER ELSE PUBLISHER

\* t.pc.AddICECandidate(candidate) on leg l
AddICECandidate(l, c) ==
  added' = [added EXCEPT ![l] = Append(@, [cand |-> c, remote |-> HasRemote(l)])]

\* c.signal.trickle(cand, target)
SignalTrickle(c, target) ==
  sigTrickle' = Append(sigTrickle,
                       [cand |-> c, target |-> target, remote |-> HasRemote(target)])

----------------------------------------------------------------------------
(* Client.trickle, src/client.go:240-258 *)

TkIdle == [pc |-> "idle", cand |-> 0, target |-> 0, buf |-> <<>>]

\* line 249: the read of CurrentRemoteDescription decides the branch
TrickleCheck(target) ==
  /\ tk.pc = "idle"
  /\ nEv < MaxEvents
  /\ nIn' = nIn + 1
  /\ LET l == TransportOf(target) IN
       /\ tk' = [pc |-> IF CurrentRemoteIsNil(l) THEN "load" ELSE "add",
                 cand |-> nIn + 1, target |-> l, buf |-> <<>>]
       /\ early' = IF HasRemote(l) THEN early
                   ELSE [early EXCEPT ![l] = Append(@, nIn + 1)]
  /\ UNCHANGED <<pendingRemote, currentRemote, RecvCandidates, SendCandidates,
                 dsc, ret, callLog, added, sigTrickle, sigAnswer, held, nOut,
                 nRounds, queueVars, apiVars, mediaVars, kept>>

\* line 250, the read of t.RecvCandidates in append(t.RecvCandidates, candidate)
TrickleLoad ==
  /\ tk.pc = "load"
  /\ tk' = [tk EXCEPT !.pc = "store", !.buf = RecvCandidates[tk.target]]
  /\ UNCHANGED <<pendingRemote, currentRemote, RecvCandidates, SendCandidates,
                 dsc, ret, callLog, added, sigTrickle, sigAnswer, early, held,
                 nIn, nOut, nRounds, queueVars, apiVars, mediaVars, kept>>

\* line 250, the write of t.RecvCandidates
TrickleStore ==
  /\ tk.pc = "store"
  /\ RecvCandidates' = [RecvCandidates EXCEPT ![tk.target] = Append(tk.buf, tk.cand)]
  /\ tk' = TkIdle
  /\ UNCHANGED <<pendingRemote, currentRemote, SendCandidates, dsc, ret, callLog,
                 added, sigTrickle, sigAnswer, early, held, nIn, nOut, nRounds,
                 queueVars, apiVars, mediaVars, kept>>

\* line 252: the candidate is applied at once (an error is only logged)
TrickleAdd ==
  /\ tk.pc = "add"
  /\ AddICECandidate(tk.target, tk.cand)
  /\ tk' = TkIdle
  /\ UNCHANGED <<pendingRemote, currentRemote, RecvCandidates, SendCandidates,
                 dsc, ret, callLog, sigTrickle, sigAnswer, early, held, nIn,
                 nOut, nRounds, queueVars, apiVars, mediaVars, kept>>

----------------------------------------------------------------------------
(* Transport's local-candidate callback (spec section 4.1, recordOutbound): *)
(* a locally generated candidate is buffered until the leg's round with the *)
(* coordinator has been acknowledged, and sent at once afterwards.          *)

RecordOutbound(l) ==
  /\ nEv < MaxEvents
  /\ nOut' = nOut + 1
  /\ IF ~HasRemote(l)
       THEN /\ SendCandidates' = [SendCandidates EXCEPT ![l] = Append(@, nOut + 1)]
            /\ held' = [held EXCEPT ![l] = Append(@, nOut + 1)]
            /\ UNCHANGED sigTrickle
       ELSE /\ SignalTrickle(nOut + 1, l)
            /\ UNCHANGED <<SendCandidates, held>>
  /\ UNCHANGED <<pendingRemote, currentRemote, RecvCandidates, tk, dsc, ret,
                 callLog, added, sigAnswer, early, nIn, nRounds, queueVars,
                 apiVars, mediaVars, kept>>

----------------------------------------------------------------------------
(* Client.negotiate, src/client.go:261-306 (subscriber leg) *)

\* dsc.fn names the running (or last) call; sendAt and recvAt remember the
\* buffers as that call found them: SendCandidates when the remote description
\* was set, RecvCandidates when the inbound flush read it.
DscInit == [pc |-> "idle", rng |-> <<>>, fn |-> "none", sendAt |-> <<>>,
            recvAt |-> <<>>]

Return(d) == [d EXCEPT !.pc = "idle", !.rng = <<>>]

Enter(fn, l, ok) ==
  [pc |-> "idle", rng |-> <<>>, fn |-> fn,
   sendAt |-> IF ok THEN SendCandidates[l] ELSE <<>>, recvAt |-> <<>>]

KeptNone == [st |-> "none", send |-> <<>>, recv |-> <<>>]

\* a call on leg l fails at SetRemoteDescription: remember the buffers
Abort(l) ==
  kept' = [kept EXCEPT ![l] = [st |-> "held", send |-> SendCandidates[l],
                               recv |-> RecvCandidates[l]]]

\* a call on leg l has passed both of its flushes
Flushed(l) ==
  kept' = IF kept[l].st = "held" THEN [kept EXCEPT ![l].st = "flushed"] ELSE kept

\* (variant of line 265-268: the failed call drops the outbound buffer)
NegotiateSetRemoteMut(ok) ==
  /\ dsc.pc = "idle"
  /\ nEv < MaxEvents
  /\ nRounds' = nRounds + 1
  /\ IF ok
       THEN /\ pendingRemote' = [pendingRemote EXCEPT ![SUBSCRIBER] = TRUE]
            /\ callLog' = <<Op("SetRemoteDescription", 0)>>
            /\ dsc' = [Enter("negotiate", SUBSCRIBER, TRUE) EXCEPT !.pc = "n_send"]
            /\ ret' = "running"
            /\ UNCHANGED <<kept, SendCandidates>>
       ELSE /\ callLog' = <<>>
            /\ dsc' = Enter("negotiate", SUBSCRIBER, FALSE)
            /\ ret' = "errSetRemoteDescription"
            /\ Abort(SUBSCRIBER)
            /\ SendCandidates' = [SendCandidates EXCEPT ![SUBSCRIBER] = <<>>]
            /\ UNCHANGED pendingRemote
  /\ UNCHANGED <<currentRemote, RecvCandidates, tk, added,
                 sigTrickle, sigAnswer, early, held, nIn, nOut, queueVars,
                 apiVars, mediaVars>>

\* line 264-268: 1. sub set remote sdp; an error returns at once
NegotiateSetRemote(ok) ==
  /\ dsc.pc = "idle"
  /\ nEv < MaxEvents
  /\ nRounds' = nRounds + 1
  /\ IF ok
       THEN /\ pendingRemote' = [pendingRemote EXCEPT ![SUBSCRIBER] = TRUE]
            /\ callLog' = <<Op("SetRemoteDescription", 0)>>
            /\ dsc' = [Enter("negotiate", SUBSCRIBER, TRUE) EXCEPT !.pc = "n_send"]
            /\ ret' = "running"
            /\ UNCHANGED kept
       ELSE /\ callLog' = <<>>
            /\ dsc' = Enter("negotiate", SUBSCRIBER, FALSE)
            /\ ret' = "errSetRemoteDescription"
            /\ Abort(SUBSCRIBER)
            /\ UNCHANGED pendingRemote
  /\ UNCHANGED <<currentRemote, RecvCandidates, SendCandidates, tk, added,
                 sigTrickle, sigAnswer, early, held, nIn, nOut, queueVars,
                 apiVars, mediaVars>>

\* line 271-272: the length test and the range over c.sub.SendCandidates
NegotiateSendCheck ==
  /\ dsc.pc = "n_send"
  /\ dsc' = IF Len(SendCandidates[SUBSCRIBER]) > 0
              THEN [dsc EXCEPT !.pc = "n_send_loop", !.rng = SendCandidates[SUBSCRIBER]]
              ELSE [dsc EXCEPT !.pc = "n_recv", !.rng = <<>>]
  /\ UNCHANGED <<pendingRemote, currentRemote, RecvCandidates, SendCandidates,
                 tk, ret, callLog, added, sigTrickle, sigAnswer, early, held,
                 nIn, nOut, nRounds, queueVars, apiVars, mediaVars, kept>>

\* line 274: c.signal.trickle(cand, SUBSCRIBER), one iteration
NegotiateSendOne ==
  /\ dsc.pc = "n_send_loop"
  /\ dsc.rng # <<>>
  /\ SignalTrickle(Head(dsc.rng), SUBSCRIBER)
  /\ callLog' = Append(callLog, Op("trickle", Head(dsc.rng)))
  /\ dsc' = [dsc EXCEPT !.rng = Tail(@)]
  /\ UNCHANGED <<pendingRemote, currentRemote, RecvCandidates, SendCandidates,
                 tk, ret, added, sigAnswer, early, held, nIn, nOut, nRounds,
                 queueVars, apiVars, mediaVars, kept>>

\* (variant of line 276: the buffer is not cleared after the loop)
NegotiateSendResetMut ==
  /\ dsc.pc = "n_send_loop"
  /\ dsc.rng = <<>>
  /\ dsc' = [dsc EXCEPT !.pc = "n_recv", !.rng = <<>>]
  /\ UNCHANGED <<pendingRemote, currentRemote, RecvCandidates, SendCandidates,
                 tk, ret, callLog, added, sigTrickle, sigAnswer, early, held,
                 nIn, nOut, nRounds, queueVars, apiVars, mediaVars, kept>>

\* line 276: c.sub.SendCandidates = []
NegotiateSendReset ==
  /\ dsc.pc = "n_send_loop"
  /\ dsc.rng = <<>>
  /\ SendCandidates' = [SendCandidates EXCEPT ![SUBSCRIBER] = <<>>]
  /\ dsc' = [dsc EXCEPT !.pc = "n_recv", !.rng = <<>>]
  /\ UNCHANGED <<pendingRemote, currentRemote, RecvCandidates, tk, ret, callLog,
                 added, sigTrickle, sigAnswer, early, held, nIn, nOut, nRounds,
                 queueVars, apiVars, mediaVars, kept>>

\* line 280-281: the length test and the range over c.sub.RecvCandidates
NegotiateRecvCheck ==
  /\ dsc.pc = "n_recv"
  /\ dsc' = IF Len(RecvCandidates[SUBSCRIBER]) > 0
              THEN [dsc EXCEPT !.pc = "n_recv_loop", !.rng = RecvCandidates[SUBSCRIBER],
                               !.recvAt = RecvCandidates[SUBSCRIBER]]
              ELSE [dsc EXCEPT !.pc = "n_answer", !.rng = <<>>]
  /\ IF Len(RecvCandidates[SUBSCRIBER]) > 0 THEN UNCHANGED kept ELSE Flushed(SUBSCRIBER)
  /\ UNCHANGED <<pendingRemote, currentRemote, RecvCandidates, SendCandidates,
                 tk, ret, callLog, added, sigTrickle, sigAnswer, early, held,
                 nIn, nOut, nRounds, queueVars, apiVars, mediaVars>>

\* line 283: _ = c.sub.pc.AddICECandidate(candidate), one iteration
NegotiateRecvOne ==
  /\ dsc.pc = "n_recv_loop"
  /\ dsc.rng # <<>>
  /\ AddICECandidate(SUBSCRIBER, Head(dsc.rng))
  /\ callLog' = Append(callLog, Op("AddICECandidate", Head(dsc.rng)))
  /\ dsc' = [dsc EXCEPT !.rng = Tail(@)]
  /\ UNCHANGED <<pendingRemote, currentRemote, RecvCandidates, SendCandidates,
                 tk, ret, sigTrickle, sigAnswer, early, held, nIn, nOut,
                 nRounds, queueVars, apiVars, mediaVars, kept>>

\* line 285: c.sub.RecvCandidates = []
NegotiateRecvReset ==
  /\ dsc.pc = "n_recv_loop"
  /\ dsc.rng = <<>>
  /\ RecvCandidates' = [RecvCandidates EXCEPT ![SUBSCRIBER] = <<>>]
  /\ dsc' = [dsc EXCEPT !.pc = "n_answer", !.rng = <<>>]
  /\ Flushed(SUBSCRIBER)
  /\ UNCHANGED <<pendingRemote, currentRemote, SendCandidates, tk, ret, callLog,
                 added, sigTrickle, sigAnswer, early, held, nIn, nOut, nRounds,
                 queueVars, apiVars, mediaVars>>

\* (variant of line 289-303: the answer is sent without being set as the
\* local description)
NegotiateCreateAnswerMut(ok) ==
  /\ dsc.pc = "n_answer"
  /\ callLog' = Append(callLog, Op("CreateAnswer", 0))
  /\ IF ok THEN dsc' = [dsc EXCEPT !.pc = "n_sendanswer", !.rng = <<>>] /\ UNCHANGED ret
           ELSE dsc' = Return(dsc) /\ ret' = "errCreateAnswer"
  /\ UNCHANGED <<pendingRemote, currentRemote, RecvCandidates, SendCandidates,
                 tk, added, sigTrickle, sigAnswer, early, held, nIn, nOut,
                 nRounds, queueVars, apiVars, mediaVars, kept>>

\* line 289-293: 4. create answer; an error returns
NegotiateCreateAnswer(ok) ==
  /\ dsc.pc = "n_answer"
  /\ callLog' = Append(callLog, Op("CreateAnswer", 0))
  /\ IF ok THEN dsc' = [dsc EXCEPT !.pc = "n_setlocal", !.rng = <<>>] /\ UNCHANGED ret
           ELSE dsc' = Return(dsc) /\ ret' = "errCreateAnswer"
  /\ UNCHANGED <<pendingRemote, currentRemote, RecvCandidates, SendCandidates,
                 tk, added, sigTrickle, sigAnswer, early, held, nIn, nOut,
                 nRounds, queueVars, apiVars, mediaVars, kept>>

\* line 296-300: 5. set local sdp(answer); an error returns.  On success the
\* round is complete and the pending remote description becomes the current one.
NegotiateSetLocal(ok) ==
  /\ dsc.pc = "n_setlocal"
  /\ callLog' = Append(callLog, Op("SetLocalDescription", 0))
  /\ IF ok
       THEN /\ currentRemote' = [currentRemote EXCEPT ![SUBSCRIBER] = TRUE]
            /\ pendingRemote' = [pendingRemote EXCEPT ![SUBSCRIBER] = FALSE]
            /\ dsc' = [dsc EXCEPT !.pc = "n_sendanswer", !.rng = <<>>]
            /\ UNCHANGED ret
       ELSE /\ dsc' = Return(dsc)
            /\ ret' = "errSetLocalDescription"
            /\ UNCHANGED <<currentRemote, pendingRemote>>
  /\ UNCHANGED <<RecvCandidates, SendCandidates, tk, added, sigTrickle,
                 sigAnswer, early, held, nIn, nOut, nRounds, queueVars, apiVars, mediaVars, kept>>

\* line 303-305: 6. send answer to sfu, return nil
NegotiateSendAnswer ==
  /\ dsc.pc = "n_sendanswer"
  /\ sigAnswer' = Append(sigAnswer, nRounds)
  /\ callLog' = Append(callLog, Op("answer", 0))
  /\ dsc' = Return(dsc)
  /\ ret' = "nil"
  /\ UNCHANGED <<pendingRemote, currentRemote, RecvCandidates, SendCandidates,
                 tk, added, sigTrickle, early, held, nIn, nOut, nRounds,
                 queueVars, apiVars, mediaVars, kept>>

----------------------------------------------------------------------------
(* Client.setRemoteSDP, src/client.go:473-501 (publisher leg) *)

\* line 474-478: the coordinator's answer completes the publisher's round
SetRemoteSDPSetRemote(ok) ==
  /\ dsc.pc = "idle"
  /\ nEv < MaxEvents
  /\ nRounds' = nRounds + 1
  /\ IF ok
       THEN /\ currentRemote' = [currentRemote EXCEPT ![PUBLISHER] = TRUE]
            /\ callLog' = <<Op("SetRemoteDescription", 0)>>
            /\ dsc' = [Enter("setRemoteSDP", PUBLISHER, TRUE) EXCEPT !.pc = "s_recv"]
            /\ ret' = "running"
            /\ UNCHANGED kept
       ELSE /\ callLog' = <<>>
            /\ dsc' = Enter("setRemoteSDP", PUBLISHER, FALSE)
            /\ ret' = "errSetRemoteDescription"
            /\ Abort(PUBLISHER)
            /\ UNCHANGED currentRemote
  /\ UNCHANGED <<pendingRemote, RecvCandidates, SendCandidates, tk, added,
                 sigTrickle, sigAnswer, early, held, nIn, nOut, queueVars,
                 apiVars, mediaVars>>

\* line 481-482: the length test and the range over c.pub.RecvCandidates
SetRemoteSDPRecvCheck ==
  /\ dsc.pc = "s_recv"
  /\ dsc' = IF Len(RecvCandidates[PUBLISHER]) > 0
              THEN [dsc EXCEPT !.pc = "s_recv_loop", !.rng = RecvCandidates[PUBLISHER],
                               !.recvAt = RecvCandidates[PUBLISHER]]
              ELSE [dsc EXCEPT !.pc = "s_send", !.rng = <<>>]
  /\ UNCHANGED <<pendingRemote, currentRemote, RecvCandidates, SendCandidates,
                 tk, ret, callLog, added, sigTrickle, sigAnswer, early, held,
                 nIn, nOut, nRounds, queueVars, apiVars, mediaVars, kept>>

\* line 484-487: err = c.pub.pc.AddICECandidate(candidate), one iteration
SetRemoteSDPRecvOne ==
  /\ dsc.pc = "s_recv_loop"
  /\ dsc.rng # <<>>
  /\ AddICECandidate(PUBLISHER, Head(dsc.rng))
  /\ callLog' = Append(callLog, Op("AddICECandidate", Head(dsc.rng)))
  /\ dsc' = [dsc EXCEPT !.rng = Tail(@)]
  /\ UNCHANGED <<pendingRemote, currentRemote, RecvCandidates, SendCandidates,
                 tk, ret, sigTrickle, sigAnswer, early, held, nIn, nOut,
                 nRounds, queueVars, apiVars, mediaVars, kept>>

\* line 489: c.pub.RecvCandidates = []
SetRemoteSDPRecvReset ==
  /\ dsc.pc = "s_recv_loop"
  /\ dsc.rng = <<>>
  /\ RecvCandidates' = [RecvCandidates EXCEPT ![PUBLISHER] = <<>>]
  /\ dsc' = [dsc EXCEPT !.pc = "s_send", !.rng = <<>>]
  /\ UNCHANGED <<pendingRemote, currentRemote, SendCandidates, tk, ret, callLog,
                 added, sigTrickle, sigAnswer, early, held, nIn, nOut, nRounds,
                 queueVars, apiVars, mediaVars, kept>>

\* line 493-494: the length test and the range over c.pub.SendCandidates;
\* line 500: with nothing to send the call returns nil
SetRemoteSDPSendCheck ==
  /\ dsc.pc = "s_send"
  /\ IF Len(SendCandidates[PUBLISHER]) > 0
       THEN dsc' = [dsc EXCEPT !.pc = "s_send_loop", !.rng = SendCandidates[PUBLISHER]]
            /\ UNCHANGED ret
       ELSE dsc' = Return(dsc) /\ ret' = "nil"
  /\ IF Len(SendCandidates[PUBLISHER]) > 0 THEN UNCHANGED kept ELSE Flushed(PUBLISHER)
  /\ UNCHANGED <<pendingRemote, currentRemote, RecvCandidates, SendCandidates,
                 tk, callLog, added, sigTrickle, sigAnswer, early, held, nIn,
                 nOut, nRounds, queueVars, apiVars, mediaVars>>

\* line 496: c.signal.trickle(cand, PUBLISHER), one iteration
SetRemoteSDPSendOne ==
  /\ dsc.pc = "s_send_loop"
  /\ dsc.rng # <<>>
  /\ SignalTrickle(Head(dsc.rng), PUBLISHER)
  /\ callLog' = Append(callLog, Op("trickle", Head(dsc.rng)))
  /\ dsc' = [dsc EXCEPT !.rng = Tail(@)]
  /\ UNCHANGED <<pendingRemote, currentRemote, RecvCandidates, SendCandidates,
                 tk, ret, added, sigAnswer, early, held, nIn, nOut, nRounds,
                 queueVars, apiVars, mediaVars, kept>>

\* line 498-500: c.pub.SendCandidates = [], return nil
SetRemoteSDPSendReset ==
  /\ dsc.pc = "s_send_loop"
  /\ dsc.rng = <<>>
  /\ SendCandidates' = [SendCandidates EXCEPT ![PUBLISHER] = <<>>]
  /\ dsc' = Return(dsc)
  /\ ret' = "nil"
  /\ Flushed(PUBLISHER)
  /\ UNCHANGED <<pendingRemote, currentRemote, RecvCandidates, tk, callLog,
                 added, sigTrickle, sigAnswer, early, held, nIn, nOut, nRounds,
                 queueVars, apiVars, mediaVars>>

----------------------------------------------------------------------------
(* The control channel: c.sub.api and the command queue, src/client.go      *)
(* 123-147 and 327-370.                                                     *)

StreamIds == {"str1", "str2"}

\* Call, line 20-24, with the position of the call among the application's
\* selectRemote calls (n) kept beside the three fields
Call(n, streamId, video, audio) ==
  [n |-> n, StreamID |-> streamId, Video |-> video, Audio |-> audio]

\* json.Marshal(cmd): the object's members in field order under their json tags
Marshal(cmd) ==
  <<"streamId", cmd.StreamID, "video", cmd.Video, "audio", cmd.Audio>>

\* c.sub.api.Send(marshalled); a failure is logged by every caller
Send(cmd, ok) ==
  /\ ok \/ nFail < MaxFail
  /\ sent' = Append(sent, [n |-> cmd.n, payload |-> Marshal(cmd), ok |-> ok])
  /\ nFail' = IF ok THEN nFail ELSE nFail + 1

\* a range over c.apiQueue begins (line 131, 344)
DrainBegins(by, queue) ==
  drains' = Append(drains, [by |-> by, snap |-> queue, tried |-> <<>>])

\* one iteration of that range has called Send
DrainTried(by, cmd, ok) ==
  drains' = [i \in 1..Len(drains) |->
               IF drains[i].by = by
                 THEN [drains[i] EXCEPT !.tried = Append(@, [n |-> cmd.n, ok |-> ok])]
                 ELSE drains[i]]

\* The goroutines that can be in selectRemote: one that calls it by itself,
\* and the one that runs Simulcast (line 435)
ByItself == "selectRemote"
BySimulcast == "Simulcast"
Callers == {ByItself, BySimulcast}

SelIdle == [pc |-> "idle", call |-> Call(0, "", "", FALSE), rng |-> <<>>,
            buf |-> <<>>]

OpnState(pc, rng) == [pc |-> pc, rng |-> rng]

\* line 123-127: the engine hands over the data channel labelled API_CHANNEL;
\* the callback keeps it in c.sub.api and registers the OnOpen flush
OnDataChannel ==
  /\ api = "nil"
  /\ api' = "connecting"
  /\ UNCHANGED <<apiQueue, sel, opn, selRet, sent, deferred, direct, flushes,
                 nCalls, nFail, candVars, apiVars, mediaVars, drains>>

\* the channel's open transition (pion): the ready state becomes open, then the
\* OnOpen callback is started on a goroutine of its own
ChannelOpen ==
  /\ api = "connecting"
  /\ api' = "open"
  /\ opn' = OpnState("check", <<>>)
  /\ UNCHANGED <<apiQueue, sel, selRet, sent, deferred, direct, flushes, nCalls,
                 nFail, candVars, apiVars, mediaVars, drains>>

\* line 130-131: the length test and the range over c.apiQueue
OnOpenCheck ==
  /\ opn.pc = "check"
  /\ opn' = IF Len(apiQueue) > 0 THEN OpnState("loop", apiQueue)
                                 ELSE OpnState("done", <<>>)
  /\ IF Len(apiQueue) > 0 THEN DrainBegins(0, apiQueue) ELSE UNCHANGED drains
  /\ UNCHANGED <<api, apiQueue, sel, selRet, sent, deferred, direct, flushes,
                 nCalls, nFail, candVars, apiVars, mediaVars>>

\* (variant of line 138-140: a failed send ends the flush)
OnOpenSendOneMut(ok) ==
  /\ opn.pc = "loop"
  /\ opn.rng # <<>>
  /\ Send(Head(opn.rng), ok)
  /\ opn' = IF ok THEN OpnState("loop", Tail(opn.rng)) ELSE OpnState("done", <<>>)
  /\ DrainTried(0, Head(opn.rng), ok)
  /\ UNCHANGED <<api, apiQueue, sel, selRet, deferred, direct, flushes, nCalls,
                 candVars, apiVars, mediaVars>>

\* line 133-141: marshal and send one queued command, then sleep
OnOpenSendOne(ok) ==
  /\ opn.pc = "loop"
  /\ opn.rng # <<>>
  /\ Send(Head(opn.rng), ok)
  /\ opn' = OpnState("loop", Tail(opn.rng))
  /\ DrainTried(0, Head(opn.rng), ok)
  /\ UNCHANGED <<api, apiQueue, sel, selRet, deferred, direct, flushes, nCalls,
                 candVars, apiVars, mediaVars>>

\* line 143: c.apiQueue = []Call{}
OnOpenReset ==
  /\ opn.pc = "loop"
  /\ opn.rng = <<>>
  /\ apiQueue' = <<>>
  /\ flushes' = Append(flushes, "OnOpen")
  /\ opn' = OpnState("done", <<>>)
  /\ UNCHANGED <<api, sel, selRet, sent, deferred, direct, nCalls, nFail,
                 candVars, apiVars, mediaVars, drains>>

\* line 336: c.sub.api == nil || c.sub.api.ReadyState() != DataChannelStateOpen
ChannelNotReady == api = "nil" \/ api # "open"

\* line 329-336: caller p enters selectRemote: it builds the call, then makes
\* the test that decides between queueing and sending
SelectRemoteEnter(p, streamId, video, audio) ==
  /\ sel[p].pc = "idle"
  /\ nCalls' = nCalls + 1
  /\ sel' = [sel EXCEPT ![p] =
               [pc |-> IF ChannelNotReady THEN "q_load" ELSE "flush",
                call |-> Call(nCalls + 1, streamId, video, audio),
                rng |-> <<>>, buf |-> <<>>]]
  /\ deferred' = IF ChannelNotReady THEN Append(deferred, nCalls + 1) ELSE deferred
  /\ direct' = IF ChannelNotReady THEN direct ELSE Append(direct, nCalls + 1)
  /\ selRet' = [selRet EXCEPT ![p] = "running"]

\* line 327-336: a selectRemote call that is not made by Simulcast
SelectRemoteCheck(streamId, video, audio) ==
  /\ nCalls < MaxCalls
  /\ SelectRemoteEnter(ByItself, streamId, video, audio)
  /\ UNCHANGED <<api, apiQueue, opn, sent, flushes, nFail, candVars, apiVars, mediaVars, drains>>

\* line 338, the read of c.apiQueue in append(c.apiQueue, call)
SelectRemoteLoad(p) ==
  /\ sel[p].pc = "q_load"
  /\ sel' = [sel EXCEPT ![p].pc = "q_store", ![p].buf = apiQueue]
  /\ UNCHANGED <<api, apiQueue, opn, selRet, sent, deferred, direct, flushes,
                 nCalls, nFail, candVars, apiVars, mediaVars, drains>>

\* line 338-339, the write of c.apiQueue; return nil
SelectRemoteStore(p) ==
  /\ sel[p].pc = "q_store"
  /\ apiQueue' = Append(sel[p].buf, sel[p].call)
  /\ sel' = [sel EXCEPT ![p].pc = "idle", ![p].buf = <<>>]
  /\ selRet' = [selRet EXCEPT ![p] = "nil"]
  /\ UNCHANGED <<api, opn, sent, deferred, direct, flushes, nCalls, nFail,
                 candVars, apiVars, mediaVars, drains>>

\* line 343-344: the length test and the range over c.apiQueue
SelectRemoteFlushCheck(p) ==
  /\ sel[p].pc = "flush"
  /\ sel' = IF Len(apiQueue) > 0
              THEN [sel EXCEPT ![p].pc = "f_loop", ![p].rng = apiQueue]
              ELSE [sel EXCEPT ![p].pc = "send"]
  /\ IF Len(apiQueue) > 0 THEN DrainBegins(sel[p].call.n, apiQueue)
                         ELSE UNCHANGED drains
  /\ UNCHANGED <<api, apiQueue, opn, selRet, sent, deferred, direct, flushes,
                 nCalls, nFail, candVars, apiVars, mediaVars>>

\* line 346-354: marshal and send one queued command, then sleep
SelectRemoteFlushOne(p, ok) ==
  /\ sel[p].pc = "f_loop"
  /\ sel[p].rng # <<>>
  /\ Send(Head(sel[p].rng), ok)
  /\ sel' = [sel EXCEPT ![p].rng = Tail(@)]
  /\ DrainTried(sel[p].call.n, Head(sel[p].rng), ok)
  /\ UNCHANGED <<api, apiQueue, opn, selRet, deferred, direct, flushes, nCalls,
                 candVars, apiVars, mediaVars>>

\* line 356: c.apiQueue = []Call{}
SelectRemoteFlushReset(p) ==
  /\ sel[p].pc = "f_loop"
  /\ sel[p].rng = <<>>
  /\ apiQueue' = <<>>
  /\ flushes' = Append(flushes, "selectRemote")
  /\ sel' = [sel EXCEPT ![p].pc = "send"]
  /\ UNCHANGED <<api, opn, selRet, sent, deferred, direct, nCalls, nFail,
                 candVars, apiVars, mediaVars, drains>>

\* line 360-369: send this cmd and return the send's error
SelectRemoteSend(p, ok) ==
  /\ sel[p].pc = "send"
  /\ Send(sel[p].call, ok)
  /\ sel' = [sel EXCEPT ![p].pc = "idle"]
  /\ selRet' = [selRet EXCEPT ![p] = IF ok THEN "nil" ELSE "errSend"]
  /\ UNCHANGED <<api, apiQueue, opn, deferred, direct, flushes, nCalls,
                 candVars, apiVars, mediaVars, drains>>

----------------------------------------------------------------------------
(* The sequential public operations.  Each is one action: the whole call,   *)
(* with the collaborator call that fails in it (if any) drawn as an input.  *)

\* src/client.go:30-32
TrackNone == 0
TrackAdd == 1
TrackRemove == 2

CallRec(op, args, r, log) == [op |-> op, args |-> args, ret |-> r, log |-> log]

\* one collaborator call made by an operation, and whether it succeeded
Step(name, fail) == [op |-> name, ok |-> (fail # name)]

Sids == {"s1", "s2"}

JoinFails == {"none", "CreateOffer", "SetLocalDescription", "signal.Join"}

\* (variant of line 161-164: the CreateOffer error is logged, not returned)
JoinMut(sid, fail) ==
  /\ nOps < MaxJoins
  /\ nOps' = nOps + 1
  /\ registered' = TRUE
  /\ nOffers' = nOffers + 1
  /\ pubLocal' = nOffers + 1
  /\ joinReqs' = Append(joinReqs, [sid |-> sid, uid |-> uid, offer |-> nOffers + 1])
  /\ lastCall' = CallRec("Join", <<sid>>, "nil",
                         <<Step("CreateOffer", fail),
                           Step("SetLocalDescription", "none"),
                           Step("signal.Join", "none")>>)
  /\ UNCHANGED <<uid, OnTrackEvent, pubTracks, producer, sigOffer, subscribeReqs,
                 userEvents, candVars, queueVars, mediaVars,
                 handlerSet, tev>>

\* Client.Join, line 89-177: register the callbacks (91-159), create the
\* offer, set it as the local description, send the join request; the first
\* error returns
Join(sid, fail) ==
  /\ nOps < MaxJoins
  /\ nOps' = nOps + 1
  /\ registered' = TRUE
  /\ IF fail = "CreateOffer"
       THEN /\ lastCall' = CallRec("Join", <<sid>>, "errCreateOffer",
                                   <<Step("CreateOffer", fail)>>)
            /\ UNCHANGED <<nOffers, pubLocal, joinReqs>>
       ELSE /\ nOffers' = nOffers + 1
            /\ IF fail = "SetLocalDescription"
                 THEN /\ lastCall' = CallRec("Join", <<sid>>, "errSetLocalDescription",
                                             <<Step("CreateOffer", fail),
                                               Step("SetLocalDescription", fail)>>)
                      /\ UNCHANGED <<pubLocal, joinReqs>>
                 ELSE /\ pubLocal' = nOffers + 1
                      /\ joinReqs' = Append(joinReqs, [sid |-> sid, uid |-> uid,
                                                       offer |-> nOffers + 1])
                      /\ lastCall' = CallRec("Join", <<sid>>,
                                             IF fail = "signal.Join" THEN "errJoin"
                                                                     ELSE "nil",
                                             <<Step("CreateOffer", fail),
                                               Step("SetLocalDescription", fail),
                                               Step("signal.Join", fail)>>)
  /\ UNCHANGED <<uid, OnTrackEvent, pubTracks, producer, sigOffer, subscribeReqs,
                 userEvents, candVars, queueVars, mediaVars,
                 handlerSet, tev>>

----------------------------------------------------------------------------
(* Client.PublishFile, src/client.go:395-423 *)

\* file names, as sequences of characters
Files == { <<"a", ".", "w", "e", "b", "m">>,
           <<"a", ".", "m", "p", "4">>,
           <<"w", "e", "b", "m">>,
           <<"a", ".", "w", "e", "b", "m", "/", "b">>,
           <<"b", ".", "a", ".", "w", "e", "b", "m">>,
           <<"a", ".", "W", "E", "B", "M">> }

WebmExt == <<".", "w", "e", "b", "m">>

\* filepath.Ext: the suffix beginning at the final dot in the final element of
\* the path; empty if there is no dot
RECURSIVE ExtFrom(_, _)
ExtFrom(path, i) ==
  IF i < 1 \/ path[i] = "/" THEN <<>>
  ELSE IF path[i] = "." THEN SubSeq(path, i, Len(path))
       ELSE ExtFrom(path, i - 1)

Ext(path) == ExtFrom(path, Len(path))

\* (variant of line 397-402: any extension at all selects the producer)
PublishFileAcceptsMut(file) == Ext(file) # <<>>

\* line 397-398: switch ext { case ".webm": ...
PublishFileAccepts(file) == Ext(file) = WebmExt

NoProducer == [set |-> FALSE, file |-> <<>>, started |-> FALSE]

PublishFails == {"none", "AddTrack.video", "AddTrack.audio", "CreateOffer",
                 "SetLocalDescription"}

\* Client.onNegotiationNeeded, line 309-324: both errors are logged and the
\* next step runs all the same.  A failed CreateOffer leaves the zero
\* description (0), which SetLocalDescription refuses.
NegotiationSteps(fail) ==
  <<Step("CreateOffer", fail),
    [op |-> "SetLocalDescription",
     ok |-> fail \notin {"CreateOffer", "SetLocalDescription"}],
    Step("signal.offer", fail)>>

onNegotiationNeeded(fail) ==
  LET offer == IF fail = "CreateOffer" THEN 0 ELSE nOffers + 1 IN
    /\ nOffers' = IF fail = "CreateOffer" THEN nOffers ELSE nOffers + 1
    /\ pubLocal' = IF fail \in {"CreateOffer", "SetLocalDescription"}
                     THEN pubLocal ELSE offer
    /\ sigOffer' = Append(sigOffer, offer)

PublishFile(file, video, audio, fail) ==
  /\ nOps < MaxPublish
  /\ nOps' = nOps + 1
  /\ LET args == <<file, video, audio>>
         made == [set |-> TRUE, file |-> file, started |-> FALSE]
         vSteps == IF video THEN <<Step("GetVideoTrack", fail),
                                   Step("AddTrack.video", fail)>>
                            ELSE <<>>
         aSteps == IF audio THEN <<Step("GetAudioTrack", fail),
                                   Step("AddTrack.audio", fail)>>
                            ELSE <<>>
         vTracks == IF video THEN Append(pubTracks, "video") ELSE pubTracks
         aTracks == IF audio THEN Append(vTracks, "audio") ELSE vTracks
     IN
       IF ~PublishFileAccepts(file)
         THEN \* line 400-401
              /\ lastCall' = CallRec("PublishFile", args, "errInvalidFile", <<>>)
              /\ UNCHANGED <<producer, pubTracks, nOffers, pubLocal, sigOffer>>
         ELSE IF video /\ fail = "AddTrack.video"
           THEN \* line 399, 403-409
                /\ producer' = made
                /\ lastCall' = CallRec("PublishFile", args, "errAddTrack",
                                       <<Step("NewWebMProducer", fail)>> \o vSteps)
                /\ UNCHANGED <<pubTracks, nOffers, pubLocal, sigOffer>>
         ELSE IF audio /\ fail = "AddTrack.audio"
           THEN \* line 411-417
                /\ producer' = made
                /\ pubTracks' = vTracks
                /\ lastCall' = CallRec("PublishFile", args, "errAddTrack",
                                       <<Step("NewWebMProducer", fail)>> \o vSteps
                                         \o aSteps)
                /\ UNCHANGED <<nOffers, pubLocal, sigOffer>>
           ELSE \* line 419-422
                /\ producer' = [made EXCEPT !.started = TRUE]
                /\ pubTracks' = aTracks
                /\ onNegotiationNeeded(fail)
                /\ lastCall' = CallRec("PublishFile", args, "nil",
                                       <<Step("NewWebMProducer", fail)>> \o vSteps
                                         \o aSteps \o <<Step("Start", fail)>>
                                         \o NegotiationSteps(fail))
  /\ UNCHANGED <<uid, registered, OnTrackEvent, joinReqs, subscribeReqs,
                 userEvents, candVars, queueVars, mediaVars,
                 handlerSet, tev>>

----------------------------------------------------------------------------
(* Client.Publish and Client.UnPublish, src/client.go:198-219 *)

\* the local tracks a Publish call is given
TrackArgs == {<<>>, <<"video">>, <<"audio">>, <<"video", "audio">>}

AddTrackOp(name) == IF name = "video" THEN "AddTrack.video" ELSE "AddTrack.audio"

UnPublishFails == {"none", "RemoveTrack", "CreateOffer", "SetLocalDescription"}

\* line 198-208: AddTrack for each track, the first error returns; then the
\* renegotiation, and nil whatever the renegotiation did
Publish(tracks, fail) ==
  /\ nOps < MaxPublish
  /\ nOps' = nOps + 1
  /\ LET bad == {i \in 1..Len(tracks) : AddTrackOp(tracks[i]) = fail}
         adds(n) == [i \in 1..n |-> Step(AddTrackOp(tracks[i]), fail)]
     IN IF bad # {}
          THEN LET f == CHOOSE i \in bad : \A j \in bad : i <= j IN
                 /\ pubTracks' = pubTracks \o SubSeq(tracks, 1, f - 1)
                 /\ lastCall' = CallRec("Publish", <<tracks>>, "errAddTrack", adds(f))
                 /\ UNCHANGED <<nOffers, pubLocal, sigOffer>>
          ELSE /\ pubTracks' = pubTracks \o tracks
               /\ onNegotiationNeeded(fail)
               /\ lastCall' = CallRec("Publish", <<tracks>>, "nil",
                                      adds(Len(tracks)) \o NegotiationSteps(fail))
  /\ UNCHANGED <<uid, registered, OnTrackEvent, producer, joinReqs, subscribeReqs,
                 userEvents, candVars, queueVars, mediaVars,
                 handlerSet, tev>>

\* line 211-219: RemoveTrack for the sender of each transceiver (here the
\* first k published tracks), the first error returns; then the
\* renegotiation, and nil whatever the renegotiation did.  A failing
\* RemoveTrack is that of the last transceiver given.
UnPublish(k, fail) ==
  /\ nOps < MaxPublish
  /\ nOps' = nOps + 1
  /\ k \in 0..Len(pubTracks)
  /\ LET removes(n) == [i \in 1..n |-> [op |-> "RemoveTrack",
                                        ok |-> ~(fail = "RemoveTrack" /\ i = k)]]
     IN IF fail = "RemoveTrack" /\ k > 0
          THEN /\ pubTracks' = SubSeq(pubTracks, k, Len(pubTracks))
               /\ lastCall' = CallRec("UnPublish", <<k>>, "errRemoveTrack", removes(k))
               /\ UNCHANGED <<nOffers, pubLocal, sigOffer>>
          ELSE /\ pubTracks' = SubSeq(pubTracks, k + 1, Len(pubTracks))
               /\ onNegotiationNeeded(fail)
               /\ lastCall' = CallRec("UnPublish", <<k>>, "nil",
                                      removes(k) \o NegotiationSteps(fail))
  /\ UNCHANGED <<uid, registered, OnTrackEvent, producer, joinReqs, subscribeReqs,
                 userEvents, candVars, queueVars, mediaVars,
                 handlerSet, tev>>

----------------------------------------------------------------------------
(* Client.Subscribe and Client.trackEvent, src/client.go:440-462.  The     *)
(* field OnTrackEvent has no lock: trackEvent is modelled one access of    *)
(* the field at a time.                                                     *)

TrackIdSet == {"t1", "t2"}

Track(id) == [ID |-> id, StreamID |-> "str1", Kind |-> "video", Muted |-> FALSE]

TrackLists ==
  UNION {[1..n -> {Track(id) : id \in TrackIdSet}] : n \in 0..MaxTracks}

TrackEvents ==
  [State : {TrackNone, TrackAdd, TrackRemove}, Uid : {"u9"}, Tracks : TrackLists]

\* the track-identifier lists the application hands to Subscribe
SubscribeArgs == {<<>>, <<"t1">>, <<"t2", "t1">>}

\* line 450-453: the identifiers of the event's tracks, in order
TrackIds(tracks) == [i \in 1..Len(tracks) |-> tracks[i].ID]

\* line 449: if event.State == TrackAdd
DefaultSubscribes(event) == event.State = TrackAdd

TevIdle == [pc |-> "idle", event |-> [State |-> TrackNone, Uid |-> "", Tracks |-> <<>>]]

\* the application assigns its handler to the exported field OnTrackEvent
\* (line 71); the field has no lock, the assignment can fall anywhere
\* between the steps of a trackEvent call
RegisterOnTrackEvent ==
  /\ OnTrackEvent # "user"
  /\ OnTrackEvent' = "user"
  /\ handlerSet' = TRUE
  /\ UNCHANGED <<uid, registered, tev, pubLocal, pubTracks, producer, joinReqs,
                 sigOffer, subscribeReqs, userEvents, lastCall, nOffers, nOps,
                 candVars, queueVars, mediaVars>>

\* line 440-442: Client.Subscribe hands its arguments to signal.Subscribe and
\* returns its result
Subscribe(trackIds, enabled, ok) ==
  /\ nOps < MaxTrackEvents
  /\ nOps' = nOps + 1
  /\ subscribeReqs' = Append(subscribeReqs,
                             [trackIds |-> trackIds, enabled |-> enabled, ok |-> ok])
  /\ lastCall' = CallRec("Subscribe", <<trackIds, enabled>>,
                         IF ok THEN "nil" ELSE "errSubscribe",
                         <<[op |-> "signal.Subscribe", ok |-> ok]>>)
  /\ UNCHANGED <<uid, registered, OnTrackEvent, handlerSet, tev, pubLocal,
                 pubTracks, producer, joinReqs, sigOffer, userEvents, nOffers,
                 candVars, queueVars, mediaVars>>

\* line 444-445: the signal delivers a track event; trackEvent tests the field
trackEventCheck(event) ==
  /\ tev.pc = "idle"
  /\ nOps < MaxTrackEvents
  /\ tev' = [pc |-> IF OnTrackEvent = "nil" THEN "store" ELSE "call",
             event |-> event]
  /\ UNCHANGED <<uid, registered, OnTrackEvent, handlerSet, pubLocal, pubTracks,
                 producer, joinReqs, sigOffer, subscribeReqs, userEvents,
                 lastCall, nOffers, nOps, candVars, queueVars, mediaVars>>

\* line 447-460: the default handler is stored in the field
trackEventStore ==
  /\ tev.pc = "store"
  /\ OnTrackEvent' = "default"
  /\ tev' = [tev EXCEPT !.pc = "call"]
  /\ UNCHANGED <<uid, registered, handlerSet, pubLocal, pubTracks, producer,
                 joinReqs, sigOffer, subscribeReqs, userEvents, lastCall,
                 nOffers, nOps, candVars, queueVars, mediaVars>>

\* line 461: the handler now in the field is called with the event.  The
\* default one (448-459) subscribes to the tracks of an added event;
\* okSub: whether that Subscribe succeeds (its error is logged).
trackEventCall(okSub) ==
  /\ tev.pc = "call"
  /\ nOps' = nOps + 1
  /\ tev' = TevIdle
  /\ LET event == tev.event IN
       IF OnTrackEvent = "user"
         THEN /\ userEvents' = Append(userEvents, event)
              /\ lastCall' = CallRec("trackEvent", <<event>>, "none",
                                     <<Step("user.OnTrackEvent", "none")>>)
              /\ UNCHANGED subscribeReqs
         ELSE IF DefaultSubscribes(event)
           THEN /\ subscribeReqs' =
                     Append(subscribeReqs,
                            [trackIds |-> TrackIds(event.Tracks),
                             enabled |-> TRUE, ok |-> okSub])
                /\ lastCall' = CallRec("trackEvent", <<event>>, "none",
                                       <<[op |-> "signal.Subscribe", ok |-> okSub]>>)
                /\ UNCHANGED userEvents
           ELSE /\ lastCall' = CallRec("trackEvent", <<event>>, "none", <<>>)
                /\ UNCHANGED <<subscribeReqs, userEvents>>
  /\ UNCHANGED <<uid, registered, OnTrackEvent, handlerSet, pubLocal, pubTracks,
                 producer, joinReqs, sigOffer, nOffers, candVars, queueVars,
                 mediaVars>>

----------------------------------------------------------------------------
(* The media path, src/client.go:91-121 (the track-arrival callback and its *)
(* default drain loop), 222-231 (Close) and 503-512 (getBandWidth).  Each   *)
(* callback runs on a goroutine of its own; c.recvByte and c.notify are     *)
(* shared with no lock, so the loop and the sampler are modelled one        *)
(* shared-memory access at a time.                                          *)

\* Bounds of the media path: tracks that arrive; events in all (arrivals,
\* successful reads, samples, Close calls)
MaxLoops == 2
MaxDrainEvents == 4

Loops == 1..MaxLoops

\* bytes one track.Read returns (the buffer holds 1500, line 102)
ReadSizes == {700, 1500}

\* the sampling period in seconds handed to getBandWidth
Cycles == {1, 2, 3}

\* what producer.GetSendBandwidth may answer
SendBWs == {0, 7}

\* Go's integer division truncates toward zero
GoDiv(a, b) ==
  LET abs(x) == IF x < 0 THEN 0 - x ELSE x
      q == abs(a) \div abs(b)
  IN IF (a < 0) = (b < 0) THEN q ELSE 0 - q

\* exit: how the callback ended
TrkNone == [pc |-> "none", sid |-> "", n |-> 0, buf |-> 0, exit |-> ""]

\* the engine calls the callback registered at line 91 for a new remote track
TrackArrive(t, sid) ==
  /\ trk[t].pc = "none"
  /\ \A u \in Loops : u < t => trk[u].pc # "none"
  /\ nDrain < MaxDrainEvents
  /\ nDrain' = nDrain + 1
  /\ trk' = [trk EXCEPT ![t] = [TrkNone EXCEPT !.pc = "lock", !.sid = sid]]
  /\ UNCHANGED <<recvByte, notify, closeOps, panicked, pcClosed, OnTrack,
                 userTracks, gbw, bwRet, samples, totalAdded, streamVars, iceVars,
                 candVars, queueVars, apiVars>>

\* line 93: c.streamLock.Lock()
OnTrackLock(t) ==
  /\ trk[t].pc = "lock"
  /\ ~streamLock.w /\ streamLock.r = 0
  /\ streamLock' = [streamLock EXCEPT !.w = TRUE]
  /\ trk' = [trk EXCEPT ![t].pc = "insert"]
  /\ UNCHANGED <<drainVarsButTrk, remoteStreamId, sim, simCalls, nSim, iceVars,
                 candVars, queueVars, apiVars>>

\* line 94: c.remoteStreamId[track.StreamID()] = track.StreamID()
OnTrackInsert(t) ==
  /\ trk[t].pc = "insert"
  /\ remoteStreamId' = remoteStreamId \cup {trk[t].sid}
  /\ trk' = [trk EXCEPT ![t].pc = "unlock"]
  /\ UNCHANGED <<drainVarsButTrk, streamLock, sim, simCalls, nSim, iceVars,
                 candVars, queueVars, apiVars>>

\* line 96: c.streamLock.Unlock()
OnTrackUnlock(t) ==
  /\ trk[t].pc = "unlock"
  /\ streamLock' = [streamLock EXCEPT !.w = FALSE]
  /\ trk' = [trk EXCEPT ![t].pc = "test"]
  /\ UNCHANGED <<drainVarsButTrk, remoteStreamId, sim, simCalls, nSim, iceVars,
                 candVars, queueVars, apiVars>>

\* line 98-102: the test of the field c.OnTrack, made with no lock held: the
\* user's handler if there is one (the callback ends with it), else the
\* drain loop
OnTrackDispatch(t) ==
  /\ trk[t].pc = "test"
  /\ IF OnTrack # "nil"
       THEN /\ userTracks' = Append(userTracks, trk[t].sid)
            /\ trk' = [trk EXCEPT ![t].pc = "done", ![t].exit = "user"]
       ELSE /\ trk' = [trk EXCEPT ![t].pc = "select"]
            /\ UNCHANGED userTracks
  /\ UNCHANGED <<recvByte, notify, closeOps, panicked, pcClosed, OnTrack, gbw,
                 bwRet, samples, totalAdded, nDrain, streamVars, iceVars,
                 candVars, queueVars, apiVars>>

\* the application assigns the exported field OnTrack (line 68)
RegisterOnTrack ==
  /\ OnTrack = "nil"
  /\ OnTrack' = "user"
  /\ UNCHANGED <<recvByte, notify, closeOps, panicked, pcClosed, userTracks, trk,
                 gbw, bwRet, samples, totalAdded, nDrain, streamVars, iceVars,
                 candVars, queueVars, apiVars>>

\* (variant of line 105: the loop never looks at the shutdown signal)
NotifyClosedMut == FALSE

\* line 105: case <-c.notify is ready once the channel is closed
NotifyClosed == notify = "closed"

\* line 104-107: select; a closed signal returns, else the default case runs
DrainSelect(t) ==
  /\ trk[t].pc = "select"
  /\ trk' = IF NotifyClosed
              THEN [trk EXCEPT ![t].pc = "done", ![t].exit = "notify"]
              ELSE [trk EXCEPT ![t].pc = "read"]
  /\ UNCHANGED <<drainVarsButTrk, streamVars, iceVars, candVars, queueVars,
                 apiVars>>

\* what track.Read(b) may return: n bytes, io.EOF, another error
ReadOutcomes ==
  {[kind |-> "data", n |-> k] : k \in ReadSizes}
    \cup {[kind |-> "eof", n |-> 0], [kind |-> "err", n |-> 0]}

\* line 108-116: n, _, err := track.Read(b); io.EOF returns, any other
\* error continues with the next iteration
DrainRead(t, out) ==
  /\ trk[t].pc = "read"
  /\ IF out.kind = "data"
       THEN /\ nDrain < MaxDrainEvents
            /\ nDrain' = nDrain + 1
            /\ trk' = [trk EXCEPT ![t].pc = "load", ![t].n = out.n]
       ELSE /\ trk' = IF out.kind = "eof"
                         THEN [trk EXCEPT ![t].pc = "done", ![t].exit = "eof"]
                         ELSE [trk EXCEPT ![t].pc = "select"]
            /\ UNCHANGED nDrain
  /\ UNCHANGED <<recvByte, notify, closeOps, panicked, pcClosed, OnTrack,
                 userTracks, gbw, bwRet, samples, totalAdded, streamVars, iceVars,
                 candVars, queueVars, apiVars>>

\* line 117, the read of c.recvByte in c.recvByte += n
DrainLoad(t) ==
  /\ trk[t].pc = "load"
  /\ trk' = [trk EXCEPT ![t].pc = "store", ![t].buf = recvByte]
  /\ UNCHANGED <<drainVarsButTrk, streamVars, iceVars, candVars, queueVars,
                 apiVars>>

\* line 117, the write of c.recvByte
DrainStore(t) ==
  /\ trk[t].pc = "store"
  /\ recvByte' = trk[t].buf + trk[t].n
  /\ totalAdded' = totalAdded + trk[t].n
  /\ trk' = [trk EXCEPT ![t].pc = "select", ![t].n = 0, ![t].buf = 0]
  /\ UNCHANGED <<notify, closeOps, panicked, pcClosed, OnTrack, userTracks, gbw,
                 bwRet, samples, nDrain, streamVars, iceVars, candVars,
                 queueVars, apiVars>>

----------------------------------------------------------------------------
(* Client.getBandWidth, src/client.go:503-512 *)

GbwIdle == [pc |-> "idle", cycle |-> 0, read |-> 0, recvBW |-> 0, sendBW |-> 0]

\* line 509: c.recvByte / cycle / 1000
RecvBW(bytes, cycle) == GoDiv(GoDiv(bytes, cycle), 1000)

\* line 504-509: the producer's estimate if there is a producer, and the read
\* of c.recvByte
GbwRead(cycle, sbw) ==
  /\ gbw.pc = "idle"
  /\ nDrain < MaxDrainEvents
  /\ nDrain' = nDrain + 1
  /\ gbw' = [pc |-> "reset", cycle |-> cycle, read |-> recvByte,
             recvBW |-> RecvBW(recvByte, cycle),
             sendBW |-> IF producer.set THEN sbw ELSE 0]
  /\ UNCHANGED <<recvByte, notify, closeOps, panicked, pcClosed, OnTrack,
                 userTracks, trk, bwRet, samples, totalAdded, streamVars, iceVars,
                 candVars, queueVars, apiVars>>

\* (variant of line 510: the counter is left as it is)
GbwResetMut ==
  /\ gbw.pc = "reset"
  /\ bwRet' = <<gbw.recvBW, gbw.sendBW>>
  /\ samples' = Append(samples, [read |-> gbw.read, total |-> totalAdded])
  /\ gbw' = GbwIdle
  /\ UNCHANGED <<recvByte, notify, closeOps, panicked, pcClosed, OnTrack,
                 userTracks, trk, totalAdded, nDrain, streamVars, iceVars,
                 candVars, queueVars, apiVars>>

\* line 510-511: c.recvByte = 0; return recvBW, sendBW
GbwReset ==
  /\ gbw.pc = "reset"
  /\ recvByte' = 0
  /\ bwRet' = <<gbw.recvBW, gbw.sendBW>>
  /\ samples' = Append(samples, [read |-> gbw.read, total |-> totalAdded])
  /\ gbw' = GbwIdle
  /\ UNCHANGED <<notify, closeOps, panicked, pcClosed, OnTrack, userTracks, trk,
                 totalAdded, nDrain, streamVars, iceVars, candVars, queueVars,
                 apiVars>>

----------------------------------------------------------------------------
(* Client.Close, src/client.go:222-231 *)

\* line 224: close(c.notify) panics on a channel that is closed already, and
\* the rest of the call is not run; line 225-230: both connections are closed
\* (c.pub and c.sub are never nil on a constructed client)
Close ==
  /\ nDrain < MaxDrainEvents
  /\ nDrain' = nDrain + 1
  /\ closeOps' = closeOps + 1
  /\ IF notify = "closed"
       THEN /\ panicked' = TRUE
            /\ UNCHANGED <<notify, pcClosed>>
       ELSE /\ notify' = "closed"
            /\ pcClosed' = [l \in Legs |-> TRUE]
            /\ UNCHANGED panicked
  /\ UNCHANGED <<recvByte, OnTrack, userTracks, trk, gbw, bwRet, samples,
                 totalAdded, streamVars, iceVars, candVars, queueVars, apiVars>>

----------------------------------------------------------------------------
(* Client.Simulcast, src/client.go:425-437.  m := c.remoteStreamId copies   *)
(* the map header, not the entries: the range of line 433 reads the map the *)
(* track-arrival callback writes.                                           *)

\* Bound: Simulcast calls made
MaxSimulcasts == 2

Layers == {"", "high"}

\* base: the keys present when the range began; seen: the keys it has produced
SimIdle == [pc |-> "idle", layer |-> "", base |-> {}, seen |-> {}]

\* line 426-428: an empty layer returns at once
SimulcastEnter(layer) ==
  /\ sim.pc = "idle"
  /\ nSim < MaxSimulcasts
  /\ nSim' = nSim + 1
  /\ sim' = IF layer = "" THEN SimIdle ELSE [SimIdle EXCEPT !.pc = "rlock", !.layer = layer]
  /\ UNCHANGED <<streamLock, remoteStreamId, simCalls, drainVars, iceVars,
                 candVars, queueVars, apiVars>>

\* line 429: c.streamLock.RLock()
SimulcastRLock ==
  /\ sim.pc = "rlock"
  /\ ~streamLock.w
  /\ streamLock' = [streamLock EXCEPT !.r = @ + 1]
  /\ sim' = [sim EXCEPT !.pc = "runlock"]
  /\ UNCHANGED <<remoteStreamId, simCalls, nSim, drainVars, iceVars, candVars,
                 queueVars, apiVars>>

\* line 430-433: m := c.remoteStreamId, c.streamLock.RUnlock(), and the
\* range over m begins
SimulcastRUnlock ==
  /\ sim.pc = "runlock"
  /\ streamLock' = [streamLock EXCEPT !.r = @ - 1]
  /\ sim' = [sim EXCEPT !.pc = "range", !.base = remoteStreamId]
  /\ UNCHANGED <<remoteStreamId, simCalls, nSim, drainVars, iceVars, candVars,
                 queueVars, apiVars>>

\* line 433-435: once the selectRemote call of the iteration before has
\* returned, the range produces a key of the map it has not produced yet (in
\* no fixed order; a key inserted since the range began may be produced or
\* skipped) and Simulcast enters selectRemote for it; the call then goes on
\* step by step as caller BySimulcast, and its result is dropped
SimulcastNext(streamId) ==
  /\ sim.pc = "range"
  /\ streamId \in remoteStreamId \ sim.seen
  /\ sim' = [sim EXCEPT !.seen = @ \cup {streamId}]
  /\ simCalls' = Append(simCalls, Call(nCalls + 1, streamId, sim.layer, TRUE))
  /\ SelectRemoteEnter(BySimulcast, streamId, sim.layer, TRUE)
  /\ UNCHANGED <<streamLock, remoteStreamId, nSim, drainVars, iceVars, candVars,
                 api, apiQueue, opn, sent, flushes, nFail, drains, apiVars>>

\* line 433, 436: the range ends once the last selectRemote call has returned
\* and every key that was there when the range began has been produced
SimulcastEnd ==
  /\ sim.pc = "range"
  /\ sel[BySimulcast].pc = "idle"
  /\ sim.base \subseteq sim.seen
  /\ sim' = SimIdle
  /\ UNCHANGED <<streamLock, remoteStreamId, simCalls, nSim, drainVars, iceVars,
                 candVars, queueVars, apiVars>>

\* line 94 against line 433: the callback's write of the map while the range
\* reads it is a data race; the run-time may detect it and end the process
\* (fatal error: concurrent map iteration and map write)
MapFault ==
  /\ sim.pc = "range"
  /\ \E t \in Loops : trk[t].pc = "insert"
  /\ sim' = [sim EXCEPT !.pc = "fatal"]
  /\ UNCHANGED <<streamLock, remoteStreamId, simCalls, nSim, drainVars, iceVars,
                 candVars, queueVars, apiVars>>

----------------------------------------------------------------------------
(* The connectivity callback, src/client.go:154-159.  Join registers it on  *)
(* the subscriber's connection; no callback is registered on the            *)
(* publisher's.                                                             *)

\* webrtc.ICEConnectionState (pion/webrtc v3): new, checking, connected,
\* completed, disconnected, failed, closed, numbered from 1
ICENew == 1
ICEDisconnected == 5
ICEClosed == 7

ICEStates == ICENew..ICEClosed

\* Bound: connectivity changes the engine reports
MaxIceEvents == 3

\* line 155: state >= webrtc.ICEConnectionStateDisconnected
Degraded(state) == state >= ICEDisconnected

\* the subscriber's connection changes state and the engine runs the
\* callback of line 154-159: delClient for a disconnected-or-worse state
SubICEStateChange(state) ==
  /\ registered
  /\ nIce < MaxIceEvents
  /\ iceState[SUBSCRIBER] \notin {state, ICEClosed}
  /\ nIce' = nIce + 1
  /\ iceState' = [iceState EXCEPT ![SUBSCRIBER] = state]
  /\ delReqs' = IF Degraded(state) THEN Append(delReqs, uid) ELSE delReqs
  /\ UNCHANGED <<drainVars, streamVars, candVars, queueVars, apiVars>>

\* the publisher's connection changes state: the client has no callback on it
PubICEStateChange(state) ==
  /\ registered
  /\ nIce < MaxIceEvents
  /\ iceState[PUBLISHER] \notin {state, ICEClosed}
  /\ nIce' = nIce + 1
  /\ iceState' = [iceState EXCEPT ![PUBLISHER] = state]
  /\ UNCHANGED <<delReqs, drainVars, streamVars, candVars, queueVars, apiVars>>

----------------------------------------------------------------------------
(* Initial states: a client as NewClient leaves it, every buffer empty,     *)
(* no remote description, no control channel, no handler registered.        *)

Uids == {"u1", "u2"}

InitCand ==
  /\ pendingRemote = [l \in Legs |-> FALSE]
  /\ currentRemote = [l \in Legs |-> FALSE]
  /\ RecvCandidates = [l \in Legs |-> <<>>]
  /\ SendCandidates = [l \in Legs |-> <<>>]
  /\ tk = TkIdle
  /\ dsc = DscInit
  /\ ret = "none"
  /\ callLog = <<>>
  /\ added = [l \in Legs |-> <<>>]
  /\ sigTrickle = <<>>
  /\ sigAnswer = <<>>
  /\ early = [l \in Legs |-> <<>>]
  /\ held = [l \in Legs |-> <<>>]
  /\ nIn = 0 /\ nOut = 0 /\ nRounds = 0
  /\ kept = [l \in Legs |-> KeptNone]

InitQueue ==
  /\ api = "nil"
  /\ apiQueue = <<>>
  /\ sel = [p \in Callers |-> SelIdle]
  /\ opn = OpnState("idle", <<>>)
  /\ selRet = [p \in Callers |-> "none"]
  /\ sent = <<>>
  /\ deferred = <<>>
  /\ direct = <<>>
  /\ flushes = <<>>
  /\ nCalls = 0 /\ nFail = 0
  /\ drains = <<>>

InitApi ==
  /\ uid \in Uids
  /\ registered = FALSE
  /\ OnTrackEvent = "nil"
  /\ pubLocal = 0
  /\ pubTracks = <<>>
  /\ producer = NoProducer
  /\ joinReqs = <<>>
  /\ sigOffer = <<>>
  /\ subscribeReqs = <<>>
  /\ userEvents = <<>>
  /\ lastCall = CallRec("none", <<>>, "none", <<>>)
  /\ nOffers = 0 /\ nOps = 0
  /\ handlerSet = FALSE
  /\ tev = TevIdle

InitMedia ==
  /\ recvByte = 0
  /\ notify = "open"
  /\ closeOps = 0
  /\ panicked = FALSE
  /\ pcClosed = [l \in Legs |-> FALSE]
  /\ OnTrack = "nil"
  /\ userTracks = <<>>
  /\ trk = [t \in Loops |-> TrkNone]
  /\ gbw = GbwIdle
  /\ bwRet = <<0, 0>>
  /\ samples = <<>>
  /\ totalAdded = 0
  /\ nDrain = 0
  /\ streamLock = [w |-> FALSE, r |-> 0]
  /\ remoteStreamId = {}
  /\ sim = SimIdle
  /\ simCalls = <<>>
  /\ nSim = 0
  /\ iceState = [l \in Legs |-> ICENew]
  /\ delReqs = <<>>
  /\ nIce = 0

Init == InitCand /\ InitQueue /\ InitApi /\ InitMedia

----------------------------------------------------------------------------
(* The candidate paths: the coordinator's candidates and descriptions are   *)
(* delivered on callbacks that may run concurrently (spec section 5).       *)

NextCand ==
  \/ \E target \in Legs : TrickleCheck(target)
  \/ TrickleLoad
  \/ TrickleStore
  \/ TrickleAdd
  \/ \E l \in Legs : RecordOutbound(l)
  \/ \E ok \in BOOLEAN : NegotiateSetRemote(ok)
  \/ NegotiateSendCheck
  \/ NegotiateSendOne
  \/ NegotiateSendReset
  \/ NegotiateRecvCheck
  \/ NegotiateRecvOne
  \/ NegotiateRecvReset
  \/ \E ok \in BOOLEAN : NegotiateCreateAnswer(ok)
  \/ \E ok \in BOOLEAN : NegotiateSetLocal(ok)
  \/ NegotiateSendAnswer
  \/ \E ok \in BOOLEAN : SetRemoteSDPSetRemote(ok)
  \/ SetRemoteSDPRecvCheck
  \/ SetRemoteSDPRecvOne
  \/ SetRemoteSDPRecvReset
  \/ SetRemoteSDPSendCheck
  \/ SetRemoteSDPSendOne
  \/ SetRemoteSDPSendReset

InitC == Init /\ uid = "u1"

SpecCand == InitC /\ [][NextCand]_vars

----------------------------------------------------------------------------
(* The command queue: the application calls selectRemote on its own          *)
(* goroutine while the engine runs the data-channel callbacks on theirs.     *)

NextQueue ==
  \/ OnDataChannel
  \/ ChannelOpen
  \/ OnOpenCheck
  \/ \E ok \in BOOLEAN : OnOpenSendOne(ok)
  \/ OnOpenReset
  \/ \E streamId \in StreamIds : SelectRemoteCheck(streamId, "high", TRUE)
  \/ SelectRemoteLoad(ByItself)
  \/ SelectRemoteStore(ByItself)
  \/ SelectRemoteFlushCheck(ByItself)
  \/ \E ok \in BOOLEAN : SelectRemoteFlushOne(ByItself, ok)
  \/ SelectRemoteFlushReset(ByItself)
  \/ \E ok \in BOOLEAN : SelectRemoteSend(ByItself, ok)

InitQ == Init /\ uid = "u1"

SpecQueue == InitQ /\ [][NextQueue]_vars

----------------------------------------------------------------------------
(* The sequential operations, each kind of call on its own *)

NextJoin == \E sid \in Sids, fail \in JoinFails : Join(sid, fail)

SpecJoin == Init /\ [][NextJoin]_vars

NextPublish ==
  \E file \in Files, video, audio \in BOOLEAN, fail \in PublishFails :
    PublishFile(file, video, audio, fail)

InitP == Init /\ uid = "u1"

SpecPublish == InitP /\ [][NextPublish]_vars

\* the operations that renegotiate the publisher leg
NextRenegotiate ==
  \/ \E tracks \in TrackArgs, fail \in PublishFails : Publish(tracks, fail)
  \/ \E k \in 0..2, fail \in UnPublishFails : UnPublish(k, fail)
  \/ \E file \in Files, video, audio \in BOOLEAN, fail \in PublishFails :
       PublishFile(file, video, audio, fail)

InitR == Init /\ uid = "u1"

SpecRenegotiate == InitR /\ [][NextRenegotiate]_vars

NextTrack ==
  \/ RegisterOnTrackEvent
  \/ \E trackIds \in SubscribeArgs, enabled \in BOOLEAN, ok \in BOOLEAN :
       Subscribe(trackIds, enabled, ok)
  \/ \E event \in TrackEvents : trackEventCheck(event)
  \/ trackEventStore
  \/ \E okSub \in BOOLEAN : trackEventCall(okSub)

InitT == Init /\ uid = "u1"

SpecTrack == InitT /\ [][NextTrack]_vars

----------------------------------------------------------------------------
(* The media path: the engine delivers tracks on concurrent callbacks, the  *)
(* engine's statistics loop samples the bandwidth, the application closes.   *)

NextDrain ==
  \/ \E t \in Loops, sid \in StreamIds : TrackArrive(t, sid)
  \/ \E t \in Loops : OnTrackLock(t)
  \/ \E t \in Loops : OnTrackInsert(t)
  \/ \E t \in Loops : OnTrackUnlock(t)
  \/ \E t \in Loops : OnTrackDispatch(t)
  \/ RegisterOnTrack
  \/ \E t \in Loops : DrainSelect(t)
  \/ \E t \in Loops, out \in ReadOutcomes : DrainRead(t, out)
  \/ \E t \in Loops : DrainLoad(t)
  \/ \E t \in Loops : DrainStore(t)
  \/ \E cycle \in Cycles, sbw \in SendBWs : GbwRead(cycle, sbw)
  \/ GbwReset
  \/ Close

InitD == Init /\ uid = "u1"

SpecDrain == InitD /\ [][NextDrain]_vars

\* Every callback runs on a goroutine that the scheduler keeps running, the
\* lock is granted to a goroutine that waits for it, and track.Read returns
\* (Close closes the subscriber's connection, which ends a pending read).
DrainFair ==
  \A t \in Loops :
    /\ WF_vars(OnTrackLock(t))
    /\ WF_vars(OnTrackInsert(t))
    /\ WF_vars(OnTrackUnlock(t))
    /\ WF_vars(OnTrackDispatch(t))
    /\ WF_vars(DrainSelect(t))
    /\ WF_vars(\E out \in ReadOutcomes : DrainRead(t, out))
    /\ WF_vars(DrainLoad(t))
    /\ WF_vars(DrainStore(t))

\* shutdown: the track callbacks with their drain loops, and Close
NextShutdown ==
  \/ \E t \in Loops, sid \in StreamIds : TrackArrive(t, sid)
  \/ \E t \in Loops : OnTrackLock(t)
  \/ \E t \in Loops : OnTrackInsert(t)
  \/ \E t \in Loops : OnTrackUnlock(t)
  \/ \E t \in Loops : OnTrackDispatch(t)
  \/ \E t \in Loops : DrainSelect(t)
  \/ \E t \in Loops, out \in ReadOutcomes : DrainRead(t, out)
  \/ \E t \in Loops : DrainLoad(t)
  \/ \E t \in Loops : DrainStore(t)
  \/ Close

InitS == Init /\ uid = "u1"

SpecShutdown == InitS /\ [][NextShutdown]_vars

LiveShutdown == InitS /\ [][NextShutdown]_vars /\ DrainFair

\* the remote-stream set: tracks arrive on the engine's callbacks (the drain
\* loop that follows the insertion is part of NextDrain) while the
\* application calls Simulcast, whose selectRemote calls queue or send their
\* commands as the control channel arrives and opens
NextStream ==
  \/ \E t \in Loops, sid \in StreamIds : TrackArrive(t, sid)
  \/ \E t \in Loops : OnTrackLock(t)
  \/ \E t \in Loops : OnTrackInsert(t)
  \/ \E t \in Loops : OnTrackUnlock(t)
  \/ \E t \in Loops : OnTrackDispatch(t)
  \/ \E layer \in Layers : SimulcastEnter(layer)
  \/ SimulcastRLock
  \/ SimulcastRUnlock
  \/ \E streamId \in StreamIds : SimulcastNext(streamId)
  \/ SelectRemoteLoad(BySimulcast)
  \/ SelectRemoteStore(BySimulcast)
  \/ SelectRemoteFlushCheck(BySimulcast)
  \/ \E ok \in BOOLEAN : SelectRemoteFlushOne(BySimulcast, ok)
  \/ SelectRemoteFlushReset(BySimulcast)
  \/ \E ok \in BOOLEAN : SelectRemoteSend(BySimulcast, ok)
  \/ SimulcastEnd
  \/ MapFault
  \/ OnDataChannel
  \/ ChannelOpen
  \/ OnOpenCheck
  \/ \E ok \in BOOLEAN : OnOpenSendOne(ok)
  \/ OnOpenReset

InitM == Init /\ uid = "u1"

SpecStream == InitM /\ [][NextStream]_vars

\* connectivity: Join registers the callback, the engine reports changes
NextIce ==
  \/ \E sid \in Sids, fail \in JoinFails : Join(sid, fail)
  \/ \E state \in ICEStates : SubICEStateChange(state)
  \/ \E state \in ICEStates : PubICEStateChange(state)

InitI == Init /\ uid = "u1"

SpecIce == InitI /\ [][NextIce]_vars

\* The whole client
Next ==
  \/ NextCand \/ NextQueue \/ NextJoin \/ NextPublish \/ NextRenegotiate
  \/ NextTrack \/ NextDrain \/ NextIce \/ NextStream

Spec == Init /\ [][Next]_vars

----------------------------------------------------------------------------
(* Properties of the candidate paths *)

Quiescent == tk.pc = "idle" /\ dsc.pc = "idle"

AppliedOf(l) == Cands(added[l])

EarlyApplied(l) == Filter(AppliedOf(l), Range(early[l]))

Increasing(s) == \A i, j \in 1..Len(s) : i < j => s[i] < s[j]

\* C1: AddICECandidate is never invoked on a peer connection, of either leg,
\* that has no remote description at that moment.
C1_NoCandidateBeforeRemote ==
  \A l \in Legs : \A i \in 1..Len(added[l]) : added[l][i].remote

\* C1 witness: on one leg a buffered candidate has been applied by the flush
\* and a later one directly by trickle.
C1_Witness ==
  \E l \in Legs :
    /\ \E i \in 1..Len(added[l]) : added[l][i].cand \in Range(early[l])
    /\ \E i \in 1..Len(added[l]) : added[l][i].cand \notin Range(early[l])

\* C2: every candidate delivered to trickle before its leg had a remote
\* description is applied to that leg at most once and in arrival order, and
\* once the remote description is set and no handler is running it has been
\* applied exactly once: none is stranded, lost or duplicated.
C2_EarlyAppliedOnceInOrder ==
  \A l \in Legs :
    /\ \A c \in Range(early[l]) : Count(AppliedOf(l), c) <= 1
    /\ Increasing(EarlyApplied(l))
    /\ (Quiescent /\ HasRemote(l)) => EarlyApplied(l) = early[l]

\* The outbound candidates of leg l that its flush has yet to send: the rest
\* of the loop's range while the loop runs, the buffer otherwise.
InSendLoop(l) ==
  \/ l = SUBSCRIBER /\ dsc.pc = "n_send_loop"
  \/ l = PUBLISHER /\ dsc.pc = "s_send_loop"

BeforeSendFlush(l) ==
  \/ l = SUBSCRIBER /\ dsc.pc = "n_send"
  \/ l = PUBLISHER /\ dsc.pc \in {"s_recv", "s_recv_loop", "s_send"}

SentOf(l) == Filter(Cands(sigTrickle), Range(held[l]))

\* C5: every outbound candidate held in a leg's SendCandidates is sent through
\* signal.trickle at most once, tagged with that leg, only when the leg has its
\* remote description, in generation order; once the flush is over all of them
\* have been sent and the buffer is empty.
C5_OutboundFlushedOnceInOrder ==
  /\ NoDup(Cands(sigTrickle))
  /\ \A l \in Legs :
       /\ \A i \in 1..Len(sigTrickle) :
            sigTrickle[i].cand \in Range(held[l]) =>
              sigTrickle[i].target = l /\ sigTrickle[i].remote
       /\ SentOf(l) \o (IF InSendLoop(l) THEN dsc.rng ELSE SendCandidates[l])
            = held[l]
       /\ (HasRemote(l) /\ ~InSendLoop(l) /\ ~BeforeSendFlush(l)) =>
            SendCandidates[l] = <<>> /\ SentOf(l) = held[l]

\* C5 witness: two candidates held by a leg have been flushed and a later
\* round on that leg has completed as well.
C5_Witness ==
  \E l \in Legs :
    /\ Len(held[l]) = 2
    /\ SentOf(l) = held[l]
    /\ nRounds >= 2
    /\ dsc.pc = "idle" /\ ret = "nil"
    /\ dsc.fn = (IF l = SUBSCRIBER THEN "negotiate" ELSE "setRemoteSDP")
    /\ dsc.sendAt = <<>>

Phase(op) ==
  CASE op = "SetRemoteDescription" -> 1
    [] op = "trickle" -> 2
    [] op = "AddICECandidate" -> 3
    [] op = "CreateAnswer" -> 4
    [] op = "SetLocalDescription" -> 5
    [] op = "answer" -> 6

OpsOf(log) == [i \in 1..Len(log) |-> log[i].op]

CandsOfOp(log, name) ==
  Cands(SelectSeq(log, LAMBDA e : e.op = name))

SingleSteps == {"SetRemoteDescription", "CreateAnswer", "SetLocalDescription",
                "answer"}

\* C7: a negotiate call makes its calls in the order set remote description,
\* send the outbound-pending candidates, apply the inbound-pending candidates,
\* create answer, set local description, send answer; a call that returns nil
\* has made each single step exactly once, has sent every outbound candidate
\* that was pending and applied every inbound candidate its flush read.
C7_NegotiateOrder ==
  dsc.fn = "negotiate" =>
    /\ \A i, j \in 1..Len(callLog) :
         i < j => Phase(callLog[i].op) <= Phase(callLog[j].op)
    /\ \A o \in SingleSteps : Count(OpsOf(callLog), o) <= 1
    /\ (dsc.pc = "idle" /\ ret = "nil") =>
         /\ \A o \in SingleSteps : Count(OpsOf(callLog), o) = 1
         /\ CandsOfOp(callLog, "trickle") = dsc.sendAt
         /\ CandsOfOp(callLog, "AddICECandidate") = dsc.recvAt
         /\ SendCandidates[SUBSCRIBER] = <<>>

\* C7 witness: a negotiate call that found a candidate in each buffer has
\* returned nil.
C7_Witness ==
  /\ dsc.fn = "negotiate" /\ dsc.pc = "idle" /\ ret = "nil"
  /\ dsc.sendAt # <<>> /\ dsc.recvAt # <<>>

----------------------------------------------------------------------------
(* Properties of the command queue *)

SentNs == [i \in 1..Len(sent) |-> sent[i].n]

QueueNs(q) == [i \in 1..Len(q) |-> q[i].n]

\* The channel has opened, its OnOpen flush is over and no selectRemote call
\* is running
QueueAtRest ==
  api = "open" /\ opn.pc = "done" /\ \A p \in Callers : sel[p].pc = "idle"

\* C3: the commands reach the channel in the order the application issued
\* them, each at most once: the queued ones in submission order and all of
\* them before any command submitted after the channel opened.
C3_SentInSubmissionOrder ==
  /\ Increasing(SentNs)
  /\ \A i \in 1..Len(sent) :
       sent[i].n \in Range(direct) =>
         \A m \in Range(deferred) :
           m < sent[i].n => \E j \in 1..(i - 1) : sent[j].n = m

\* C4: once the channel has opened and its OnOpen flush is over, every command
\* that selectRemote deferred to apiQueue has been sent, with no further
\* selectRemote call needed.
C4_DeferredEventuallySent ==
  QueueAtRest => \A n \in Range(deferred) : n \in Range(SentNs)

\* A command between selectRemote's test and the end of its append
Appending(n) ==
  \E p \in Callers : sel[p].pc \in {"q_load", "q_store"} /\ sel[p].call.n = n

\* The commands an unfinished drain has still to send
Draining ==
  (IF opn.pc = "loop" THEN Range(QueueNs(opn.rng)) ELSE {})
    \cup UNION {IF sel[p].pc = "f_loop" THEN Range(QueueNs(sel[p].rng)) ELSE {} :
                  p \in Callers}

\* C6: apiQueue is drained once per open event (the model's channel opens
\* once), and a drain's reset discards no command unsent: every deferred
\* command is still being appended, in the queue, in a running drain, or sent.
C6_DrainedOnceNothingDiscarded ==
  /\ Len(flushes) <= 1
  /\ \A n \in Range(deferred) :
       \/ Appending(n)
       \/ n \in Range(QueueNs(apiQueue))
       \/ n \in Draining
       \/ n \in Range(SentNs)

----------------------------------------------------------------------------
(* Properties of the sequential operations *)

ErrOf(op) ==
  CASE op = "CreateOffer" -> "errCreateOffer"
    [] op = "SetLocalDescription" -> "errSetLocalDescription"
    [] op = "signal.Join" -> "errJoin"

JoinOrder == <<"CreateOffer", "SetLocalDescription", "signal.Join">>

\* C8: a Join call creates the offer, sets it as the local description and
\* sends one join request carrying (sid, uid, that offer), in that order and
\* each step once; the first step that fails ends the call, its error is the
\* call's result, and no join request is sent unless both earlier steps
\* succeeded.
C8_JoinSingleShot ==
  [][ (nOps' = nOps + 1 /\ lastCall'.op = "Join") =>
        LET c == lastCall'
            ops == OpsOf(c.log)
            n == Len(c.log)
        IN /\ n \in 1..3
           /\ ops = SubSeq(JoinOrder, 1, n)
           /\ \A i \in 1..(n - 1) : c.log[i].ok
           /\ n < 3 => ~c.log[n].ok
           /\ c.ret = (IF c.log[n].ok THEN "nil" ELSE ErrOf(ops[n]))
           /\ IF n = 3
                THEN /\ nOffers' = nOffers + 1
                     /\ pubLocal' = nOffers'
                     /\ joinReqs' = Append(joinReqs, [sid |-> c.args[1], uid |-> uid,
                                                      offer |-> nOffers'])
                ELSE UNCHANGED <<joinReqs, pubLocal>> ]_vars

\* C8 witness: after a Join that failed, a Join has returned nil and the one
\* join request carries the local description.
C8_Witness ==
  /\ nOps = 2
  /\ lastCall.op = "Join" /\ lastCall.ret = "nil"
  /\ Len(joinReqs) = 1
  /\ joinReqs[1] = [sid |-> lastCall.args[1], uid |-> uid, offer |-> pubLocal]

\* C9: PublishFile with a file whose extension is not ".webm" returns the
\* unsupported-file-type error and changes nothing: no producer is created or
\* started, no track is added, no offer is created, set or sent.
C9_NonWebmNoEffect ==
  [][ (nOps' = nOps + 1 /\ lastCall'.op = "PublishFile"
         /\ Ext(lastCall'.args[1]) # WebmExt) =>
        /\ lastCall'.ret = "errInvalidFile"
        /\ lastCall'.log = <<>>
        /\ UNCHANGED <<producer, pubTracks, sigOffer, pubLocal, nOffers>> ]_vars

\* C9 witness: a file with another extension has been refused on a client
\* whose producer, from an earlier call, is running.
C9_Witness ==
  /\ lastCall.op = "PublishFile" /\ lastCall.ret = "errInvalidFile"
  /\ Ext(lastCall.args[1]) \notin {<<>>, WebmExt}
  /\ producer.set /\ producer.started
  /\ Len(sigOffer) = 1

\* C10: a track event is dispatched by what the application has registered.
\* With no user handler registered, an event in state 'added' makes exactly
\* one subscribe request, for the identifiers of the event's tracks in order
\* and with enabled = true, and a 'removed' or 'none' event makes none; with
\* a user handler registered the event goes to it and no subscribe request
\* is made.
C10_DefaultAutoSubscribe ==
  [][ (nOps' = nOps + 1 /\ lastCall'.op = "trackEvent") =>
        LET ev == lastCall'.args[1] IN
          IF handlerSet
            THEN /\ userEvents' = Append(userEvents, ev)
                 /\ UNCHANGED subscribeReqs
            ELSE /\ UNCHANGED userEvents
                 /\ IF ev.State = TrackAdd
                      THEN /\ Len(subscribeReqs') = Len(subscribeReqs) + 1
                           /\ SubSeq(subscribeReqs', 1, Len(subscribeReqs)) = subscribeReqs
                           /\ LET r == subscribeReqs'[Len(subscribeReqs')] IN
                                /\ r.enabled = TRUE
                                /\ Len(r.trackIds) = Len(ev.Tracks)
                                /\ \A i \in 1..Len(ev.Tracks) :
                                     r.trackIds[i] = ev.Tracks[i].ID
                      ELSE UNCHANGED subscribeReqs ]_vars

----------------------------------------------------------------------------
(* Properties of the media path *)

\* bytes the loops have stored in the counter since the last sample returned
StoredSinceSample ==
  totalAdded - (IF samples = <<>> THEN 0 ELSE samples[Len(samples)].total)

\* C11: when a getBandWidth(cycle) call returns, the received-byte counter is
\* zero and the receive bandwidth it returns is the counter value it read,
\* in units of cycle * 1000 bytes, rounded down; a sample taken when no bytes
\* have been stored in the counter since the previous sample returned reads
\* zero and returns a receive bandwidth of zero.
C11_SampleResetsCounter ==
  [][ /\ (gbw.pc = "reset" /\ gbw'.pc = "idle") =>
           /\ recvByte' = 0
           /\ bwRet'[1] = gbw.read \div (gbw.cycle * 1000)
           /\ samples'[Len(samples')].read = gbw.read
      /\ (gbw.pc = "idle" /\ gbw'.pc = "reset") =>
           /\ gbw'.read = recvByte
           /\ (samples # <<>> /\ StoredSinceSample = 0) =>
                (gbw'.read = 0 /\ gbw'.recvBW = 0) ]_vars

\* C11 witness: a sample has returned a non-zero receive bandwidth, and the
\* next one, with nothing received in between, has returned zero.
C11_Witness ==
  /\ Len(samples) = 2
  /\ samples[1].read >= 1000
  /\ samples[2].read = 0
  /\ samples[1].total = samples[2].total
  /\ gbw.pc = "idle"
  /\ bwRet[1] = 0
  /\ recvByte = 0

----------------------------------------------------------------------------
(* Properties of the renegotiation *)

Renegotiating == {"Publish", "UnPublish", "PublishFile"}

FailedIn(log, name) == \E i \in 1..Len(log) : log[i].op = name /\ ~log[i].ok

MadeIn(log, name) == \E i \in 1..Len(log) : log[i].op = name

\* C12: in a Publish, UnPublish or PublishFile call, a failed CreateOffer is
\* followed by no SetLocalDescription and no offer to the coordinator, a
\* failed SetLocalDescription by no offer to the coordinator, and in either
\* case the call returns an error.
C12_RenegotiationErrorSurfaced ==
  lastCall.op \in Renegotiating =>
    LET log == lastCall.log IN
      /\ FailedIn(log, "CreateOffer") =>
           /\ ~MadeIn(log, "SetLocalDescription")
           /\ ~MadeIn(log, "signal.offer")
           /\ lastCall.ret # "nil"
      /\ FailedIn(log, "SetLocalDescription") =>
           /\ ~MadeIn(log, "signal.offer")
           /\ lastCall.ret # "nil"

----------------------------------------------------------------------------
(* Properties of a failed SetRemoteDescription and of the flush order *)

\* C13: a negotiate or setRemoteSDP call whose SetRemoteDescription fails
\* returns that error at once, having made no other call, and leaves both
\* buffers of every leg, the candidates applied, the candidates and answers
\* sent and the remote descriptions as they were; the next call on the same
\* leg that gets past its flushes has sent every outbound candidate and
\* applied every inbound candidate that the failed call left buffered, in
\* buffer order and ahead of any other.
C13_FailedSetRemoteKeepsBuffers ==
  [][ /\ (nRounds' = nRounds + 1 /\ ret' = "errSetRemoteDescription") =>
           /\ dsc'.pc = "idle"
           /\ callLog' = <<>>
           /\ UNCHANGED <<RecvCandidates, SendCandidates, added, sigTrickle,
                          sigAnswer, pendingRemote, currentRemote>>
      /\ \A l \in Legs :
           (kept[l].st = "held" /\ kept'[l].st = "flushed") =>
             /\ IsPrefix(kept[l].send, CandsOfOp(callLog', "trickle"))
             /\ IsPrefix(kept[l].recv, CandsOfOp(callLog', "AddICECandidate")) ]_vars

\* C13 witness: a call on a leg failed with a candidate in each buffer, and
\* a later call on that leg has flushed them and returned nil.
C13_Witness ==
  \E l \in Legs :
    /\ kept[l].st = "flushed"
    /\ kept[l].send # <<>> /\ kept[l].recv # <<>>
    /\ dsc.pc = "idle" /\ ret = "nil"
    /\ TransportOf(IF dsc.fn = "negotiate" THEN SUBSCRIBER ELSE PUBLISHER) = l
    /\ SendCandidates[l] = <<>> /\ RecvCandidates[l] = <<>>

\* C14: in a setRemoteSDP call the remote description is set first, then the
\* outbound-pending candidates are sent, then the inbound-pending candidates
\* are applied: no candidate is sent after one has been applied.
C14_SetRemoteSDPFlushOrder ==
  dsc.fn = "setRemoteSDP" =>
    /\ callLog # <<>> => callLog[1].op = "SetRemoteDescription"
    /\ \A i, j \in 1..Len(callLog) :
         (callLog[i].op = "AddICECandidate" /\ callLog[j].op = "trickle") => j < i

----------------------------------------------------------------------------
(* Properties of the connectivity callback *)

Reaches(l, S) == iceState'[l] # iceState[l] /\ iceState'[l] \in S

\* C15: when either connection's connectivity state becomes disconnected,
\* failed or closed the client asks the engine for its own removal, and it
\* asks for it at no other moment.
C15_RemovalOnDegradedConnectivity ==
  [][ /\ (\E l \in Legs : Reaches(l, ICEDisconnected..ICEClosed)) =>
           delReqs' = Append(delReqs, uid)
      /\ delReqs' # delReqs =>
           \E l \in Legs : Reaches(l, ICEDisconnected..ICEClosed) ]_vars

----------------------------------------------------------------------------
(* Properties of shutdown *)

Running(t) == trk[t].pc \notin {"none", "done"}

\* C16: once the shutdown signal is closed, every track-arrival callback
\* that is running, its default drain loop included, comes to its end,
\* whatever track.Read returns: data, end-of-stream or any other error.
C16_DrainLoopsTerminate ==
  \A t \in Loops : (notify = "closed" /\ Running(t)) ~> (trk[t].pc = "done")

\* C16 witness: after Close, a drain loop that had added bytes to the counter
\* has ended on the shutdown signal.
C16_Witness ==
  /\ notify = "closed"
  /\ totalAdded > 0
  /\ \E t \in Loops : trk[t].pc = "done" /\ trk[t].exit = "notify"
  /\ \A t \in Loops : ~Running(t)

\* C17: the shutdown signal is closed at most once, whatever the sequence of
\* calls: a Close call on a client that is closed already does not execute
\* the close of the signal again (and so cannot panic on it).
C17_NotifyClosedAtMostOnce ==
  closeOps <= 1 /\ ~panicked

----------------------------------------------------------------------------
(* Properties of a send failure *)

TriedNs(d) == [i \in 1..Len(d.tried) |-> d.tried[i].n]

\* what drain d has still to send: the rest of its range while it runs
RestOf(d) ==
  IF d.by = 0 /\ opn.pc = "loop" THEN QueueNs(opn.rng)
  ELSE IF \E p \in Callers : sel[p].pc = "f_loop" /\ sel[p].call.n = d.by
    THEN LET p == CHOOSE q \in Callers : sel[q].pc = "f_loop" /\ sel[q].call.n = d.by
         IN QueueNs(sel[p].rng)
  ELSE <<>>

\* each drain attempts the commands of the queue as it found it, one send
\* each, in order, whether or not a send fails
DrainsComplete ==
  \A i \in 1..Len(drains) :
    QueueNs(drains[i].snap) = TriedNs(drains[i]) \o RestOf(drains[i])

\* the send a finished selectRemote call made of its own command
OwnSend(p) == {i \in 1..Len(sent) : sent[i].n = sel[p].call.n}

\* what a finished selectRemote call returned: nil if it queued its command,
\* else the outcome of the one send of its own command
OwnResult ==
  \A p \in Callers :
    (sel[p].pc = "idle" /\ sel[p].call.n # 0) =>
      IF sel[p].call.n \in Range(deferred)
        THEN selRet[p] = "nil"
        ELSE /\ Cardinality(OwnSend(p)) = 1
             /\ \A i \in OwnSend(p) :
                  selRet[p] = (IF sent[i].ok THEN "nil" ELSE "errSend")

\* C18: a failed send does not end a flush of the queue, in the OnOpen
\* callback or in selectRemote: the flush goes on to attempt every later
\* command of the queue once, in order, never the failed one again, and
\* leaves the queue empty; selectRemote returns the outcome of the send of
\* its own command, whatever happened to the queued ones.
C18_SendFailureDoesNotAbortFlush ==
  [][ /\ DrainsComplete'
      /\ OwnResult'
      /\ Len(flushes') > Len(flushes) => apiQueue' = <<>> ]_vars

\* C18 witness: the OnOpen flush found two commands, the send of the first
\* failed, the second was sent all the same, and the queue is empty; then a
\* selectRemote call sent its own command and returned nil.
C18_Witness ==
  /\ flushes = <<"OnOpen">>
  /\ Len(drains) = 1
  /\ drains[1].tried = <<[n |-> 1, ok |-> FALSE], [n |-> 2, ok |-> TRUE]>>
  /\ apiQueue = <<>>
  /\ sel[ByItself].pc = "idle" /\ sel[ByItself].call.n = 3
  /\ direct = <<3>>
  /\ selRet[ByItself] = "nil"

----------------------------------------------------------------------------
(* Properties of the byte counter *)

RECURSIVE SumReads(_)
SumReads(ss) == IF ss = <<>> THEN 0 ELSE Head(ss).read + SumReads(Tail(ss))

\* no drain loop is inside c.recvByte += n and no sample is under way
CounterAtRest ==
  /\ gbw.pc = "idle"
  /\ \A t \in Loops : trk[t].pc \notin {"load", "store"}

\* C19: every byte a drain loop adds to the counter is counted in exactly one
\* sample: whenever no access to the counter is under way, the values the
\* samples have read and the value now in the counter add up to the bytes the
\* loops have added.
C19_EveryByteCountedOnce ==
  CounterAtRest => SumReads(samples) + recvByte = totalAdded

----------------------------------------------------------------------------
(* Properties of the remote-stream set *)

\* a track-arrival callback is between Lock and Unlock
Inserting == \E t \in Loops : trk[t].pc \in {"insert", "unlock"}

\* Simulcast is reading the set: line 430 (between RLock and RUnlock) or
\* the range of line 433
Traversing == sim.pc \in {"runlock", "range"}

\* C20: the remote-stream set is read and written only with streamLock held:
\* a callback inserts under the write lock, Simulcast reads under the read
\* lock, so Simulcast's traversal never overlaps an insertion (and the
\* run-time never finds the two racing).
C20_StreamSetUnderLock ==
  /\ Inserting => streamLock.w
  /\ Traversing => streamLock.r > 0
  /\ ~(Traversing /\ Inserting)
  /\ sim.pc # "fatal"

====
